---- MODULE Spec2Model ----
(***************************************************************************)
(* A model of the bytecode writer of tclcompiler (src/cmpWrite.c):         *)
(*   - the post-compile pipeline CompileProcBodies (proc-site analysis,    *)
(*     literal reference counting, body unsharing, body compilation and    *)
(*     the bytecode rewriter UpdateByteCodes);                             *)
(*   - the ASCII85 byte-sequence emitter EmitByteSequence;                 *)
(*   - the image emitter EmitByteCode and the records it writes;           *)
(*   - CompileObject's release of the allocations of a compilation;        *)
(*   - Compiler_CompileFile's save and restore of the literal table;       *)
(*   - the dummy command and the error texts of CompileOneProcBody;        *)
(*   - CompileObject's proc hook, proc sites and context counters;         *)
(*   - EmitScriptPreamble's reference to the loader error message.         *)
(* Code offsets are 0-based as in the C source; the byte at offset o of a  *)
(* code sequence c is c[o + 1].                                            *)
(***************************************************************************)
EXTENDS Integers, Sequences, FiniteSets, TLC

VARIABLES
    phase,              \* position in CompileProcBodies / UpdateByteCodes
    code,               \* compEnvPtr->codeStart .. codeNext
    literalArray,       \* compEnvPtr->literalArrayPtr
    cmdMap,             \* compEnvPtr->cmdMapPtr
    exceptArray,        \* compEnvPtr->exceptArrayPtr
    auxDataArray,       \* JumptableInfo records of compEnvPtr->auxDataArrayPtr
    procs,              \* infoPtr->procs (InstLocList)
    infoArray,          \* infoPtr->infoArrayPtr (ProcBodyInfo)
    objTable,           \* infoPtr->objTable (ObjRefInfo by literal index)
    numUnshares,        \* infoPtr->numUnshares
    numCompiledBodies,  \* infoPtr->numCompiledBodies
    procNameObjIndex,   \* UpdateByteCodes: index of the tbcload::bcproc literal
    offset,             \* UpdateByteCodes: sum of the localized shifts so far
    site,               \* loop index over infoArray
    result,             \* result code of CompileProcBodies
    errorMsg,           \* parts of the message left in the interpreter result
    pre,                \* history: the compile environment UpdateByteCodes started from
    path,               \* history: which rewrite path UpdateByteCodes took
    a85,                \* state of one EmitByteSequence run
    em,                 \* state of one EmitByteCode run on the top-level image
    heap,               \* the allocations of the compilation that are not released
    cf,                 \* state of one Compiler_CompileFile run
    dm,                 \* CompileOneProcBody from the choice of the dummy command name on
    hk,                 \* CompileObject: the proc hook, the proc sites, the context counters
    pr                  \* state of one EmitScriptPreamble run

rwVars == <<phase, code, literalArray, cmdMap, exceptArray, auxDataArray, procs,
            infoArray, objTable, numUnshares, numCompiledBodies,
            procNameObjIndex, offset, site, result, errorMsg, pre, path, heap>>

\* the variables of the parts of the program that run apart from the ones above
xVars == <<dm, hk, pr>>

vars == <<rwVars, a85, em, cf, xVars>>

(***************************************************************************)
(* Bounds of the model.                                                    *)
(***************************************************************************)
MaxCmds == 3

\* longest byte sequence of the exhaustive inputs of EmitByteSequence
MaxBytes == 5

(***************************************************************************)
(* Opcodes and instruction sizes, as the instruction table gives them.     *)
(***************************************************************************)
INST_DONE == 0
INST_PUSH1 == 1
INST_PUSH4 == 2
INST_POP == 3
INST_INVOKE_STK1 == 6
INST_LOAD_SCALAR1 == 10
INST_JUMP1 == 34
INST_JUMP4 == 35
INST_JUMP_TRUE1 == 36
INST_JUMP_TRUE4 == 37
INST_JUMP_FALSE1 == 38
INST_JUMP_FALSE4 == 39
INST_JUMP_TABLE == 121

TCL_OK == 0
TCL_ERROR == 1

numBytes(op) ==
    CASE op \in {INST_DONE, INST_POP} -> 1
      [] op \in {INST_PUSH1, INST_INVOKE_STK1, INST_LOAD_SCALAR1,
                 INST_JUMP1, INST_JUMP_TRUE1, INST_JUMP_FALSE1} -> 2
      [] op \in {INST_PUSH4, INST_JUMP4, INST_JUMP_TRUE4, INST_JUMP_FALSE4,
                 INST_JUMP_TABLE} -> 5
      [] OTHER -> 1

At(c, o) == c[o + 1]

\* TclGetUInt1AtPtr, TclGetInt1AtPtr, TclGetUInt4AtPtr, TclGetInt4AtPtr
TclGetUInt1AtPtr(c, o) == At(c, o)
TclGetInt1AtPtr(c, o) == IF At(c, o) >= 128 THEN At(c, o) - 256 ELSE At(c, o)
TclGetUInt4AtPtr(c, o) ==
    At(c, o) * 16777216 + At(c, o + 1) * 65536 + At(c, o + 2) * 256 + At(c, o + 3)
\* (the model's integers are 32 bits wide: a negative value is read and
\* written through its one's complement)
TclGetInt4AtPtr(c, o) ==
    IF At(c, o) < 128 THEN TclGetUInt4AtPtr(c, o)
    ELSE -((255 - At(c, o)) * 16777216 + (255 - At(c, o + 1)) * 65536
           + (255 - At(c, o + 2)) * 256 + (255 - At(c, o + 3))) - 1

UInt4Bytes(u) == << u \div 16777216, (u \div 65536) % 256, (u \div 256) % 256, u % 256 >>

\* the four bytes TclStoreInt4AtPtr writes for the int i (two's complement)
Int4Bytes(i) ==
    IF i >= 0 THEN UInt4Bytes(i)
    ELSE LET m == UInt4Bytes(-i - 1) IN << 255 - m[1], 255 - m[2], 255 - m[3], 255 - m[4] >>

\* the byte TclStoreInt1AtPtr writes for the int i
Int1Byte(i) == i % 256

\* TclUpdateInstInt4AtPc(op, i, pc): the five bytes of the instruction
InstInt4(op, i) == <<op>> \o Int4Bytes(i)

SubSeqFrom(c, o) == SubSeq(c, o + 1, Len(c))
SubSeqTo(c, o) == SubSeq(c, 1, o)

\* the offsets at which the instructions of c start (walk by numBytes)
RECURSIVE InstStartsFrom(_, _)
InstStartsFrom(c, o) ==
    IF o >= Len(c) THEN {} ELSE {o} \cup InstStartsFrom(c, o + numBytes(At(c, o)))
InstStarts(c) == InstStartsFrom(c, 0)

(***************************************************************************)
(* The compile environment the frontend hands to PostProcessCompile.  A    *)
(* script is a sequence of commands; each command is one of a few shapes   *)
(* of instruction groups.  A command is a record [k, f, a, b]:             *)
(*   "proc"  proc name args body, all four words pushed as literals with   *)
(*           push form f (1 or 4), args literal a, body literal b          *)
(*   "procv" proc name args $body      (the body is loaded, not pushed)    *)
(*   "procn" proc $name args body      (the name is loaded, not pushed)    *)
(*   "proc5" proc name args body extra (five words: invoke_stk1 5)         *)
(*   "push"  push1 a; pop                                                  *)
(*   "jump"  one jump instruction with opcode f to the start of command    *)
(*           (own position + a)                                            *)
(*   "jtab"  one jumpTable instruction whose JumptableInfo has two         *)
(*           targets, two commands ahead and one command back              *)
(* The code ends with INST_DONE, which TclSetByteCodeFromAny emits before  *)
(* it calls the hook.                                                      *)
(***************************************************************************)
Cmd(k, f, a, b) == [k |-> k, f |-> f, a |-> a, b |-> b]

ProcKinds == {"proc", "procv", "procn", "proc5"}

Push(f, idx) == IF f = 1 THEN <<INST_PUSH1, idx>> ELSE InstInt4(INST_PUSH4, idx)

\* the bytes of command c; rel is its jump displacement, aux its AuxData index
CmdBytes(c, rel, aux) ==
    CASE c.k = "proc" ->
            Push(c.f, 0) \o Push(c.f, 1) \o Push(c.f, c.a) \o Push(c.f, c.b)
            \o <<INST_INVOKE_STK1, 4, INST_POP>>
      [] c.k = "procv" ->
            Push(c.f, 0) \o Push(c.f, 1) \o Push(c.f, c.a)
            \o <<INST_LOAD_SCALAR1, 0, INST_INVOKE_STK1, 4, INST_POP>>
      [] c.k = "procn" ->
            Push(c.f, 0) \o <<INST_LOAD_SCALAR1, 0>> \o Push(c.f, c.a) \o Push(c.f, c.b)
            \o <<INST_INVOKE_STK1, 4, INST_POP>>
      [] c.k = "proc5" ->
            Push(c.f, 0) \o Push(c.f, 1) \o Push(c.f, c.a) \o Push(c.f, c.b)
            \o Push(c.f, 7) \o <<INST_INVOKE_STK1, 5, INST_POP>>
      [] c.k = "push" -> <<INST_PUSH1, c.a, INST_POP>>
      [] c.k = "jump" ->
            IF numBytes(c.f) = 2 THEN <<c.f, Int1Byte(rel)>> ELSE InstInt4(c.f, rel)
      [] c.k = "jtab" -> InstInt4(INST_JUMP_TABLE, aux)

CmdSize(c) == Len(CmdBytes(c, 0, 0))

\* offset of the first byte of command i (i = Len(prog) + 1: of INST_DONE)
RECURSIVE CmdStart(_, _)
CmdStart(prog, i) ==
    IF i <= 1 THEN 0 ELSE CmdStart(prog, i - 1) + CmdSize(prog[i - 1])

Clamp(i, n) == IF i < 1 THEN 1 ELSE IF i > n + 1 THEN n + 1 ELSE i

\* displacement from command i to the start of command i + d
Rel(prog, i, d) == CmdStart(prog, Clamp(i + d, Len(prog))) - CmdStart(prog, i)

AuxIndex(prog, i) == Cardinality({j \in 1..(i - 1) : prog[j].k = "jtab"})

RECURSIVE AssembleFrom(_, _)
AssembleFrom(prog, i) ==
    IF i > Len(prog) THEN <<INST_DONE>>
    ELSE CmdBytes(prog[i], Rel(prog, i, prog[i].a), AuxIndex(prog, i))
         \o AssembleFrom(prog, i + 1)

Assemble(prog) == AssembleFrom(prog, 1)

\* keep the elements of a sequence of positions that satisfy Test
RECURSIVE SelectIdx(_, _, _)
SelectIdx(prog, i, kinds) ==
    IF i > Len(prog) THEN <<>>
    ELSE (IF prog[i].k \in kinds THEN <<i>> ELSE <<>>) \o SelectIdx(prog, i + 1, kinds)

\* the JumptableInfo of each jumpTable instruction: target offsets relative
\* to the instruction
FrontendAux(prog) ==
    LET js == SelectIdx(prog, 1, {"jtab"})
    IN  [x \in 1..Len(js) |-> << Rel(prog, js[x], 2), Rel(prog, js[x], -1) >>]

FrontendCmdMap(prog) ==
    [i \in 1..Len(prog) |->
        [codeOffset |-> CmdStart(prog, i), numCodeBytes |-> CmdSize(prog[i])]]

CATCH_EXCEPTION_RANGE == "catch"
LOOP_EXCEPTION_RANGE == "loop"

\* a catch range and a loop range over commands s .. e-1
RangesOver(prog, s, e) ==
    << [type |-> CATCH_EXCEPTION_RANGE,
        codeOffset |-> CmdStart(prog, s),
        numCodeBytes |-> CmdStart(prog, e) - CmdStart(prog, s),
        catchOffset |-> CmdStart(prog, e), breakOffset |-> -1, continueOffset |-> -1],
       [type |-> LOOP_EXCEPTION_RANGE,
        codeOffset |-> CmdStart(prog, s),
        numCodeBytes |-> CmdStart(prog, e) - CmdStart(prog, s),
        catchOffset |-> -1,
        breakOffset |-> CmdStart(prog, e), continueOffset |-> CmdStart(prog, s)] >>

\* no exception range, or the two ranges over the first or the second command
RangeChoices(prog) ==
    {<<>>} \cup {RangesOver(prog, s, s + 1) : s \in (1..Len(prog)) \cap (1..2)}

\* the literal table: a few named literals, then filler up to n entries
StringObj(s) == [typ |-> "string", str |-> s]

BaseLiterals == << "proc", "p", "a b", "X", "Y", "{x(0) 1}", "{a 1 2}", "set" >>

Literals(n) ==
    [i \in 1..n |-> StringObj(IF i <= Len(BaseLiterals) THEN BaseLiterals[i] ELSE "lit")]

RECURSIVE SeqsUpTo(_, _)
SeqsUpTo(S, n) ==
    IF n = 0 THEN {<<>>}
    ELSE LET shorter == SeqsUpTo(S, n - 1)
         IN  shorter \cup {Append(p, c) : p \in {q \in shorter : Len(q) = n - 1}, c \in S}

(***************************************************************************)
(* LoadProcBodyInfo: scan the instructions at a recorded proc location.    *)
(***************************************************************************)
IsPush(c, o) == At(c, o) \in {INST_PUSH1, INST_PUSH4}

\* the operand of the push at o, as LoadProcBodyInfo and GetSharedIndex read it
PushOperand(c, o) ==
    IF At(c, o) = INST_PUSH1 THEN TclGetUInt1AtPtr(c, o + 1) ELSE TclGetUInt4AtPtr(c, o + 1)

\* pc += 2 (push1) or pc += 5 (push4)
AfterPush(c, o) == IF At(c, o) = INST_PUSH1 THEN o + 2 ELSE o + 5

LoadProcBodyInfo(loc, c) ==
    LET o0 == loc.bytecodeOffset
        none == [commandIndex |-> loc.commandIndex, procOffset |-> o0,
                 nameIndex |-> -1, argsIndex |-> -1, bodyOrigIndex |-> -1,
                 bodyNewIndex |-> -1, bodyOffset |-> -1]
        o1 == AfterPush(c, o0)
        o2 == AfterPush(c, o1)
        o3 == AfterPush(c, o2)
        o4 == AfterPush(c, o3)
    IN  IF ~IsPush(c, o0) THEN none
        ELSE IF ~IsPush(c, o1) THEN none
        ELSE IF ~IsPush(c, o2) THEN [none EXCEPT !.nameIndex = PushOperand(c, o1)]
        ELSE IF ~IsPush(c, o3)
             THEN [none EXCEPT !.nameIndex = PushOperand(c, o1),
                               !.argsIndex = PushOperand(c, o2),
                               !.bodyOffset = o3]
        ELSE IF (At(c, o4) # INST_INVOKE_STK1) \/ (TclGetUInt1AtPtr(c, o4 + 1) # 4)
             THEN [none EXCEPT !.bodyOffset = o3]
        ELSE [none EXCEPT !.nameIndex = PushOperand(c, o1),
                          !.argsIndex = PushOperand(c, o2),
                          !.bodyOrigIndex = PushOperand(c, o3),
                          !.bodyNewIndex = PushOperand(c, o3),
                          !.bodyOffset = o3]

\* GetSharedIndex: the literal index an instruction references, or -1
GetSharedIndex(c, o) == IF IsPush(c, o) THEN PushOperand(c, o) ELSE -1

(***************************************************************************)
(* State after the frontend pass: Init draws a script, the size of its     *)
(* literal table and its exception ranges.                                 *)
(***************************************************************************)
NoPre == [code |-> <<>>, cmdMap |-> <<>>, exceptArray |-> <<>>, infoArray |-> <<>>,
          literalArray |-> <<>>]

A85Idle == [pc |-> "idle", bytes |-> <<>>, pos |-> 0, buf |-> <<>>, out |-> <<>>,
            failed |-> FALSE, opFailed |-> FALSE, opRc |-> TCL_OK, rc |-> TCL_OK,
            overflow |-> FALSE]

\* no EmitByteCode run; rec is the last call of EmitObject on an object
\* that holds no image, images the calls of EmitByteCode that returned TCL_OK
EmIdle == [pc |-> "idle", stack |-> <<>>, chan |-> <<>>, rc |-> TCL_OK,
           rec |-> <<>>, images |-> <<>>]

\* the blocks obtained from Tcl_Alloc, or by Tcl_SplitList, during a
\* compilation and not released yet, counted by what they hold
NoHeap == [postProcessInfo |-> 0, instLocList |-> 0, infoArray |-> 0, objRefInfo |-> 0,
           proc |-> 0, compiledLocal |-> 0, argArray |-> 0, fieldValues |-> 0,
           delta |-> 0, newbc |-> 0]

Alloc(h, what, n) == [h EXCEPT ![what] = @ + n]

Free(h, what, n) == [h EXCEPT ![what] = @ - n]

\* no CompileOneProcBody run
DmIdle == [pc |-> "idle"]

\* no CompileObject run
HkIdle == [pc |-> "idle"]

\* no EmitScriptPreamble run
PrIdle == [pc |-> "idle"]

xIdle == dm = DmIdle /\ hk = HkIdle /\ pr = PrIdle

\* no Compiler_CompileFile run
CfIdle == [pc |-> "idle", literalTable |-> <<>>, glt |-> <<>>, entry |-> <<>>,
           result |-> TCL_OK]

InitWith(menu, litCounts, withRanges) ==
    \E prog \in SeqsUpTo(menu, MaxCmds), n \in litCounts :
      \E ranges \in (IF withRanges THEN RangeChoices(prog) ELSE {<<>>}) :
        /\ phase = "CreateProcBodyInfoArray"
        /\ code = Assemble(prog)
        /\ literalArray = Literals(n)
        /\ cmdMap = FrontendCmdMap(prog)
        /\ exceptArray = ranges
        /\ auxDataArray = FrontendAux(prog)
        /\ procs = LET ps == SelectIdx(prog, 1, ProcKinds)
                   IN  [x \in 1..Len(ps) |->
                          [bytecodeOffset |-> CmdStart(prog, ps[x]),
                           commandIndex |-> ps[x] - 1]]
        /\ infoArray = <<>>
        /\ objTable = <<>>
        /\ numUnshares = 0
        /\ numCompiledBodies = 0
        /\ procNameObjIndex = -1
        /\ offset = 0
        /\ site = 0
        /\ result = TCL_OK
        /\ errorMsg = <<>>
        /\ pre = NoPre
        /\ path = "none"
        /\ a85 = A85Idle
        /\ em = EmIdle
        /\ heap = [NoHeap EXCEPT !.postProcessInfo = 1, !.instLocList = Len(procs)]
        /\ cf = CfIdle
    /\ xIdle

(***************************************************************************)
(* CompileProcBodies, first steps.                                         *)
(***************************************************************************)
\* Tcl_Free of infoArrayPtr when it is not NULL
FreeProcBodyInfoArray(h) == [h EXCEPT !.infoArray = 0]

\* if (infoPtr->numProcs < 1) return TCL_OK; CreateProcBodyInfoArray
CreateProcBodyInfoArray ==
    /\ phase = "CreateProcBodyInfoArray"
    /\ IF Len(procs) < 1
       THEN /\ phase' = "done"
            /\ infoArray' = infoArray
            /\ heap' = heap
       ELSE /\ phase' = "LoadObjRefInfoTable"
            /\ infoArray' = [i \in 1..Len(procs) |-> LoadProcBodyInfo(procs[i], code)]
            /\ heap' = Alloc(FreeProcBodyInfoArray(heap), "infoArray", 1)
    /\ UNCHANGED <<code, literalArray, cmdMap, exceptArray, auxDataArray, procs,
                   objTable, numUnshares, numCompiledBodies, procNameObjIndex,
                   offset, site, result, errorMsg, pre, path, a85, em, cf, xVars>>

\* the number of push instructions of c whose operand is idx
NumPushesOf(c, idx) == Cardinality({o \in InstStarts(c) : GetSharedIndex(c, o) = idx})

\* Tcl_Free of the ObjRefInfo of every entry of the table
CleanObjRefInfoTable(h, tab) == Free(h, "objRefInfo", Cardinality(DOMAIN tab))

LoadObjRefInfoTable ==
    /\ phase = "LoadObjRefInfoTable"
    /\ heap' = Alloc(CleanObjRefInfoTable(heap, objTable), "objRefInfo",
                     Cardinality({infoArray[i].bodyOrigIndex : i \in 1..Len(infoArray)}))
    /\ objTable' =
         [k \in {infoArray[i].bodyOrigIndex : i \in 1..Len(infoArray)} |->
            [numReferences |-> IF k >= 0 THEN NumPushesOf(code, k) ELSE 0,
             numProcReferences |->
                 Cardinality({i \in 1..Len(infoArray) : infoArray[i].bodyOrigIndex = k}),
             numUnshares |-> 0]]
    /\ phase' = "UnshareProcBodies"
    /\ UNCHANGED <<code, literalArray, cmdMap, exceptArray, auxDataArray, procs,
                   infoArray, numUnshares, numCompiledBodies, procNameObjIndex,
                   offset, site, result, errorMsg, pre, path, a85, em, cf, xVars>>

(***************************************************************************)
(* UnshareProcBodies.                                                      *)
(***************************************************************************)
\* UnshareObject: TclAddLiteralObj of a duplicate; the new index is the old
\* length of the literal array
UnshareObject(origIndex, lits) == Append(lits, lits[origIndex + 1])

\* the test that keeps the first occurrence in place
KeepInPlaceNoCount(r) == r.numReferences = r.numProcReferences

KeepInPlaceNever(r) == FALSE

KeepInPlace(r) == (r.numReferences = r.numProcReferences) /\ (r.numUnshares < 1)

\* one iteration of the loop over the info array; st = [info, tab, lits, n]
UnshareOne(st, i) ==
    LET origIndex == st.info[i].bodyOrigIndex
    IN  IF origIndex = -1 THEN st
        ELSE LET r == st.tab[origIndex]
             IN  IF r.numReferences < 2 THEN st
                 ELSE IF KeepInPlace(r)
                      THEN [st EXCEPT !.tab[origIndex].numUnshares = 1]
                      ELSE [st EXCEPT !.info[i].bodyNewIndex = Len(st.lits),
                                      !.lits = UnshareObject(origIndex, st.lits),
                                      !.tab[origIndex].numUnshares = @ + 1,
                                      !.n = @ + 1]

RECURSIVE UnshareLoop(_, _)
UnshareLoop(st, i) ==
    IF i > Len(st.info) THEN st ELSE UnshareLoop(UnshareOne(st, i), i + 1)

UnshareProcBodies ==
    /\ phase = "UnshareProcBodies"
    /\ LET st == UnshareLoop([info |-> infoArray, tab |-> objTable,
                              lits |-> literalArray, n |-> 0], 1)
       IN  /\ infoArray' = st.info
           /\ objTable' = st.tab
           /\ literalArray' = st.lits
           /\ numUnshares' = st.n
    /\ phase' = "CompileOneProcBody"
    /\ site' = 1
    /\ numCompiledBodies' = 0
    /\ heap' = heap
    /\ UNCHANGED <<code, cmdMap, exceptArray, auxDataArray, procs, procNameObjIndex,
                   offset, result, errorMsg, pre, path, a85, em, cf, xVars>>

(***************************************************************************)
(* CompileOneProcBody.  Tcl_SplitList is modelled by its value on the args *)
(* literals of the model: a list of argument specifiers, each a list of    *)
(* fields, each field a sequence of characters; "bad" when the string is   *)
(* not a list.                                                             *)
(***************************************************************************)
List(l) == [ok |-> TRUE, list |-> l]

SplitArgs(str) ==
    CASE str = "a b" -> List(<< << <<"a">> >>, << <<"b">> >> >>)
      [] str = "{x(0) 1}" -> List(<< << <<"x", "(", "0", ")">>, <<"1">> >> >>)
      [] str = "{a 1 2}" -> List(<< << <<"a">>, <<"1">>, <<"2">> >> >>)
      [] str = "X" -> List(<< << <<"X">> >> >>)
      [] str = "Y" -> List(<< << <<"Y">> >> >>)
      [] str = "p" -> List(<< << <<"p">> >> >>)
      [] str = "set" -> List(<< << <<"s", "e", "t">> >> >>)
      [] str = "proc" -> List(<< << <<"p", "r", "o", "c">> >> >>)
      [] str = "{" -> [ok |-> FALSE, list |-> <<>>]
      [] OTHER -> List(<<>>)

\* the scan for "(" ... ")" over the formal parameter name
IsArrayElement(name) ==
    \E i \in 1..Len(name) : name[i] = "(" /\ name[Len(name)] = ")"

\* the result code the array-element branch returns: the value of 'result',
\* which the last Tcl_SplitList left at TCL_OK
ArrayElementResult(res) == res

\* result of the loop over the argument specifiers: "ok", or the outcome
\* of the first specifier that stops the loop
RECURSIVE CheckArgs(_, _)
CheckArgs(specs, i) ==
    IF i > Len(specs) THEN [rc |-> TCL_OK, stop |-> "none", msg |-> <<>>]
    ELSE LET fields == specs[i]
         IN  IF Len(fields) > 2
             THEN [rc |-> TCL_ERROR, stop |-> "too many fields", msg |-> <<>>]
             ELSE IF Len(fields) = 0 \/ Len(fields[1]) = 0
             THEN [rc |-> TCL_ERROR, stop |-> "no name", msg |-> <<>>]
             ELSE IF IsArrayElement(fields[1])
             THEN [rc |-> ArrayElementResult(TCL_OK), stop |-> "array element",
                   msg |-> fields[1]]
             ELSE CheckArgs(specs, i + 1)

ProcBodyObj(str, numArgs) == [typ |-> "procbody", str |-> str, numArgs |-> numArgs]

\* CompileOneProcBody for site b; bodyOk is the frontend's verdict on the
\* body.  Returns the result code, the literal array, whether the body was
\* compiled and the error message parts (procedure name, parameter).
CompileOneProcBody(b, lits, bodyOk) ==
    LET fullName == lits[b.nameIndex + 1].str
        split == SplitArgs(lits[b.argsIndex + 1].str)
        specs == split.list
        bodyPtr == lits[b.bodyNewIndex + 1]
        keep == [rc |-> TCL_OK, lits |-> lits, compiled |-> FALSE, msg |-> <<>>]
    IN  IF b.bodyNewIndex = -1 THEN keep
        ELSE IF ~split.ok THEN [keep EXCEPT !.rc = TCL_ERROR]
        ELSE LET chk == CheckArgs(specs, 1)
             IN  IF chk.stop = "array element"
                 THEN [keep EXCEPT !.rc = chk.rc, !.msg = <<fullName, chk.msg>>]
                 ELSE IF chk.rc # TCL_OK THEN [keep EXCEPT !.rc = chk.rc, !.msg = <<fullName>>]
                 ELSE IF ~bodyOk THEN [keep EXCEPT !.rc = TCL_ERROR, !.msg = <<fullName>>]
                 ELSE [rc |-> TCL_OK,
                       lits |-> [lits EXCEPT ![b.bodyNewIndex + 1] =
                                    ProcBodyObj(bodyPtr.str, Len(specs))],
                       compiled |-> TRUE, msg |-> <<>>]

\* the number of CompiledLocal entries allocated when the loop over the
\* argument specifiers stops, or ends
RECURSIVE LocalsAllocated(_, _)
LocalsAllocated(specs, i) ==
    IF i > Len(specs) THEN 0
    ELSE LET fields == specs[i]
         IN  IF Len(fields) > 2 \/ Len(fields) = 0 \/ Len(fields[1]) = 0
                \/ IsArrayElement(fields[1])
             THEN 0
             ELSE 1 + LocalsAllocated(specs, i + 1)

\* what CompileOneProcBody allocates and releases: the Proc, the argument
\* array of Tcl_SplitList, the CompiledLocal entries; the field arrays are
\* released in the iteration that obtained them.  A body that was compiled
\* is installed with its Proc and locals in the procbody literal; the
\* dummy command of a body that failed to compile releases them.
CompileOneProcBodyHeap(h, b, lits, bodyOk) ==
    LET split == SplitArgs(lits[b.argsIndex + 1].str)
        chk == CheckArgs(split.list, 1)
        n == LocalsAllocated(split.list, 1)
        entered == Alloc(Alloc(Alloc(h, "proc", 1), "argArray", 1), "compiledLocal", n)
    IN  IF b.bodyNewIndex = -1 THEN h
        ELSE IF ~split.ok THEN Free(Alloc(h, "proc", 1), "proc", 1)
        ELSE IF chk.stop = "array element" THEN Free(entered, "proc", 1)
        ELSE Free(Free(Free(entered, "compiledLocal", n), "proc", 1), "argArray", 1)

\* one iteration of the loop of CompileProcBodies over the info array
CompileBody ==
    /\ phase = "CompileOneProcBody"
    /\ site <= Len(infoArray)
    /\ \E bodyOk \in BOOLEAN :
         LET b == infoArray[site]
             r == CompileOneProcBody(b, literalArray, bodyOk)
         IN  /\ literalArray' = r.lits
             /\ result' = r.rc
             /\ heap' = CompileOneProcBodyHeap(heap, b, literalArray, bodyOk)
             /\ errorMsg' = IF r.msg # <<>> THEN r.msg ELSE errorMsg
             /\ IF r.rc # TCL_OK
                THEN /\ phase' = "done"
                     /\ UNCHANGED <<numCompiledBodies, site, xVars>>
                ELSE /\ numCompiledBodies' =
                          IF b.bodyNewIndex # -1 THEN numCompiledBodies + 1
                          ELSE numCompiledBodies
                     /\ site' = site + 1
                     /\ phase' = IF site = Len(infoArray) THEN "UpdateByteCodes" ELSE phase
    /\ UNCHANGED <<code, cmdMap, exceptArray, auxDataArray, procs, infoArray, objTable,
                   numUnshares, procNameObjIndex, offset, pre, path, a85, em, cf, xVars>>

(***************************************************************************)
(* UpdateByteCodes: the global expansion.                                  *)
(***************************************************************************)
IsJumpShortOnly(op) == op \in {INST_JUMP1, INST_JUMP_TRUE1, INST_JUMP_FALSE1}

\* the test of the scan: INST_JUMP1 <= opcode <= INST_JUMP_FALSE4
IsJump(op) == (op >= INST_JUMP1) /\ (op <= INST_JUMP_FALSE4)

IsShortJump(op) == op \in {INST_JUMP1, INST_JUMP_TRUE1, INST_JUMP_FALSE1}

IsLongJump(op) == op \in {INST_JUMP4, INST_JUMP_TRUE4, INST_JUMP_FALSE4}

\* the scan for jumps
NumJumps(c) == Cardinality({o \in InstStarts(c) : IsJump(At(c, o))})

ExpandsJumpsOnly(op) == IsShortJump(op)

\* the instructions that grow by 3 bytes
Expands(op) == IsShortJump(op) \/ op = INST_PUSH1

\* the shift table pass: the pairs <<offset, shift>> written into delta[],
\* and the final value of 'offset'
RECURSIVE ShiftWalk(_, _, _)
ShiftWalk(c, o, acc) ==
    IF o >= Len(c) THEN [pairs |-> {}, total |-> acc]
    ELSE LET rest == ShiftWalk(c, o + numBytes(At(c, o)),
                               IF Expands(At(c, o)) THEN acc + 3 ELSE acc)
         IN  [pairs |-> {<<o, acc>>} \cup rest.pairs, total |-> rest.total]

\* delta[]: written only at the offsets where an instruction starts
ShiftTable(c) ==
    LET w == ShiftWalk(c, 0, 0)
    IN  [o \in {p[1] : p \in w.pairs} |-> (CHOOSE p \in w.pairs : p[1] = o)[2]]

TotalShift(c) == ShiftWalk(c, 0, 0).total

\* a read of delta[idx]: an entry the pass did not write (or one outside the
\* array) holds an arbitrary value g
Garbage == {0, 3}

DeltaAt(d, idx, g) == IF idx \in DOMAIN d THEN d[idx] ELSE g

JumpFixNoCompensation(jmpdelta, jmpshift, dstshift) == jmpdelta

\* the new jump operand
JumpFix(jmpdelta, jmpshift, dstshift) ==
    IF jmpshift # dstshift THEN jmpdelta + (dstshift - jmpshift) ELSE jmpdelta

\* the bytes the copy loop emits for the instruction at o
ExpandInst(c, o, d, g) ==
    LET op == At(c, o)
    IN  CASE IsShortJump(op) ->
               LET jmpdelta == TclGetInt1AtPtr(c, o + 1)
               IN  InstInt4(op + 1, JumpFix(jmpdelta, d[o], DeltaAt(d, o + jmpdelta, g)))
          [] IsLongJump(op) ->
               LET jmpdelta == TclGetInt4AtPtr(c, o + 1)
               IN  IF d[o] # DeltaAt(d, o + jmpdelta, g)
                   THEN InstInt4(op, JumpFix(jmpdelta, d[o], DeltaAt(d, o + jmpdelta, g)))
                   ELSE SubSeq(c, o + 1, o + numBytes(op))
          [] op = INST_PUSH1 -> InstInt4(INST_PUSH4, TclGetUInt1AtPtr(c, o + 1))
          [] OTHER -> SubSeq(c, o + 1, o + numBytes(op))

RECURSIVE ExpandFrom(_, _, _, _)
ExpandFrom(c, o, d, g) ==
    IF o >= Len(c) THEN <<>>
    ELSE ExpandInst(c, o, d, g) \o ExpandFrom(c, o + numBytes(At(c, o)), d, g)

FixCmdLocationNoShift(loc, newcode, d, g) == loc

\* fix of one command location
FixCmdLocation(loc, newcode, d, g) ==
    LET off == loc.codeOffset + DeltaAt(d, loc.codeOffset, g)
    IN  [codeOffset |-> off, numCodeBytes |-> numBytes(At(newcode, off))]

\* the new numCodeBytes of an exception range
FixRangeLength(exc, d, g) ==
    exc.numCodeBytes + DeltaAt(d, exc.codeOffset + exc.numCodeBytes, g)

\* fix of one exception range
FixExceptionRange(exc, d, g) ==
    [type |-> exc.type,
     numCodeBytes |-> FixRangeLength(exc, d, g),
     codeOffset |-> exc.codeOffset + DeltaAt(d, exc.codeOffset, g),
     catchOffset |-> IF exc.type = CATCH_EXCEPTION_RANGE
                     THEN exc.catchOffset + DeltaAt(d, exc.catchOffset, g)
                     ELSE exc.catchOffset,
     breakOffset |-> IF exc.type = LOOP_EXCEPTION_RANGE
                     THEN exc.breakOffset + DeltaAt(d, exc.breakOffset, g)
                     ELSE exc.breakOffset,
     continueOffset |-> IF exc.type = LOOP_EXCEPTION_RANGE
                        THEN exc.continueOffset + DeltaAt(d, exc.continueOffset, g)
                        ELSE exc.continueOffset]

\* fix of one ProcBodyInfo
FixProcBodyInfo(b, d, g) ==
    [b EXCEPT !.procOffset = @ + DeltaAt(d, b.procOffset, g),
              !.bodyOffset = @ + DeltaAt(d, b.bodyOffset, g)]

\* the block "if (offset) { ... }": env = [code, cmdMap, exceptArray, infoArray]
GlobalExpansion(env, g) ==
    LET d == ShiftTable(env.code)
        newbc == ExpandFrom(env.code, 0, d, g)
    IN  [code |-> newbc,
         cmdMap |-> [i \in 1..Len(env.cmdMap) |->
                        FixCmdLocation(env.cmdMap[i], newbc, d, g)],
         exceptArray |-> [i \in 1..Len(env.exceptArray) |->
                            FixExceptionRange(env.exceptArray[i], d, g)],
         infoArray |-> [i \in 1..Len(env.infoArray) |->
                          FixProcBodyInfo(env.infoArray[i], d, g)]]

\* UpdateByteCodes up to the label (%%%%)
\* the shift table is allocated when there are jumps and released at the
\* end; the new code is allocated when the total shift is not zero and
\* released after the copy
ExpansionHeap(h, shifted) ==
    LET table == Alloc(h, "delta", 1)
        copied == IF shifted THEN Free(Alloc(table, "newbc", 1), "newbc", 1) ELSE table
    IN  Free(copied, "delta", 1)

UpdateByteCodes ==
    /\ phase = "UpdateByteCodes"
    /\ pre' = [code |-> code, cmdMap |-> cmdMap, exceptArray |-> exceptArray,
               infoArray |-> infoArray, literalArray |-> literalArray]
    /\ IF numCompiledBodies = 0
       THEN /\ phase' = "done"
            /\ UNCHANGED <<code, literalArray, cmdMap, exceptArray, infoArray,
                           procNameObjIndex, path, site, offset>>
       ELSE \E g \in Garbage :
              LET k == Len(literalArray)
                  env == [code |-> code, cmdMap |-> cmdMap,
                          exceptArray |-> exceptArray, infoArray |-> infoArray]
                  big == (k >= 255) /\ (NumJumps(code) > 0)
                  new == IF big /\ TotalShift(code) > 0
                         THEN GlobalExpansion(env, g) ELSE env
              IN  /\ literalArray' = Append(literalArray, StringObj("tbcload::bcproc"))
                  /\ procNameObjIndex' = k
                  /\ code' = new.code
                  /\ cmdMap' = new.cmdMap
                  /\ exceptArray' = new.exceptArray
                  /\ infoArray' = new.infoArray
                  /\ path' = IF k < 255 THEN "inplace"
                             ELSE IF NumJumps(code) = 0 THEN "local"
                             ELSE IF TotalShift(code) > 0 THEN "global" ELSE "global0"
                  /\ phase' = "RewriteSite"
                  /\ site' = 1
                  /\ offset' = 0
    /\ heap' = IF numCompiledBodies # 0 /\ Len(literalArray) >= 255 /\ NumJumps(code) > 0
                THEN ExpansionHeap(heap, TotalShift(code) > 0)
                ELSE heap
    /\ UNCHANGED <<auxDataArray, procs, objTable, numUnshares, numCompiledBodies,
                   result, errorMsg, a85, em, cf, xVars>>

(***************************************************************************)
(* ShiftByteCodes and ReplacePushIndex; env = [code, cmdMap, exceptArray]. *)
(***************************************************************************)
ShiftRangeNoSlide(exc, startOffset, shiftCount) == exc

ShiftRange(exc, startOffset, shiftCount) ==
    LET start == exc.codeOffset
        end == start + exc.numCodeBytes
        Slide(x) == IF x > startOffset THEN x + shiftCount ELSE x
    IN  [type |-> exc.type,
         codeOffset |-> IF start > startOffset THEN start + shiftCount ELSE start,
         numCodeBytes |-> IF start > startOffset THEN exc.numCodeBytes
                          ELSE IF end > startOffset THEN exc.numCodeBytes + shiftCount
                          ELSE exc.numCodeBytes,
         catchOffset |-> IF exc.type = CATCH_EXCEPTION_RANGE
                         THEN Slide(exc.catchOffset) ELSE exc.catchOffset,
         breakOffset |-> IF exc.type = LOOP_EXCEPTION_RANGE
                         THEN Slide(exc.breakOffset) ELSE exc.breakOffset,
         continueOffset |-> IF exc.type = LOOP_EXCEPTION_RANGE
                            THEN Slide(exc.continueOffset) ELSE exc.continueOffset]

\* memmove(toPtr, fromPtr, currBytes - startOffset): the bytes from
\* startOffset on move up; the gap keeps the bytes that were there
ShiftByteCodes(env, commandIndex, startOffset, shiftCount) ==
    [code |-> SubSeqTo(env.code, startOffset)
              \o SubSeq(env.code, startOffset + 1, startOffset + shiftCount)
              \o SubSeqFrom(env.code, startOffset),
     cmdMap |-> [i \in 1..Len(env.cmdMap) |->
                   IF i - 1 = commandIndex
                   THEN [env.cmdMap[i] EXCEPT !.numCodeBytes = @ + shiftCount]
                   ELSE IF i - 1 > commandIndex
                   THEN [env.cmdMap[i] EXCEPT !.codeOffset = @ + shiftCount]
                   ELSE env.cmdMap[i]],
     exceptArray |-> [i \in 1..Len(env.exceptArray) |->
                        ShiftRange(env.exceptArray[i], startOffset, shiftCount)]]

PokeBefore(c, o, bs) == SubSeqTo(c, o - 1) \o bs \o SubSeqFrom(c, o - 1 + Len(bs))

\* overwrite the bytes of c from offset o on with bs
Poke(c, o, bs) == SubSeqTo(c, o) \o bs \o SubSeqFrom(c, o + Len(bs))

\* returns [env, delta, panic]
ReplacePushIndex(env, commandIndex, o, newIndex) ==
    CASE At(env.code, o) = INST_PUSH1 ->
           IF newIndex < 255
           THEN [env |-> [env EXCEPT !.code = Poke(env.code, o + 1, <<newIndex % 256>>)],
                 delta |-> 0, panic |-> FALSE]
           ELSE LET sh == ShiftByteCodes(env, commandIndex, o, 3)
                IN  [env |-> [sh EXCEPT !.code = Poke(sh.code, o, InstInt4(INST_PUSH4, newIndex))],
                     delta |-> 3, panic |-> FALSE]
      [] At(env.code, o) = INST_PUSH4 ->
           [env |-> [env EXCEPT !.code = Poke(env.code, o + 1, Int4Bytes(newIndex))],
            delta |-> 0, panic |-> FALSE]
      [] OTHER -> [env |-> env, delta |-> 0, panic |-> TRUE]

\* one iteration of the loop after (%%%%)
RewriteSite ==
    /\ phase = "RewriteSite"
    /\ site <= Len(infoArray)
    /\ LET b0 == infoArray[site]
           b1 == [b0 EXCEPT !.procOffset = @ + offset, !.bodyOffset = @ + offset]
           env == [code |-> code, cmdMap |-> cmdMap, exceptArray |-> exceptArray]
           r1 == ReplacePushIndex(env, b1.commandIndex, b1.procOffset, procNameObjIndex)
           b2 == [b1 EXCEPT !.bodyOffset = @ + r1.delta]
           r2 == ReplacePushIndex(r1.env, b2.commandIndex, b2.bodyOffset, b2.bodyNewIndex)
           both == b2.bodyNewIndex # b2.bodyOrigIndex
       IN  IF b1.bodyNewIndex = -1
           THEN /\ infoArray' = [infoArray EXCEPT ![site] = b1]
                /\ phase' = IF site = Len(infoArray) THEN "done" ELSE phase
                /\ site' = site + 1
                /\ UNCHANGED <<code, cmdMap, exceptArray, offset, xVars>>
           ELSE IF r1.panic \/ (both /\ r2.panic)
           THEN /\ phase' = "panic"
                /\ UNCHANGED <<code, cmdMap, exceptArray, offset, infoArray, site, xVars>>
           ELSE /\ infoArray' = [infoArray EXCEPT ![site] = b2]
                /\ code' = IF both THEN r2.env.code ELSE r1.env.code
                /\ cmdMap' = IF both THEN r2.env.cmdMap ELSE r1.env.cmdMap
                /\ exceptArray' = IF both THEN r2.env.exceptArray ELSE r1.env.exceptArray
                /\ offset' = offset + r1.delta + (IF both THEN r2.delta ELSE 0)
                /\ phase' = IF site = Len(infoArray) THEN "done" ELSE phase
                /\ site' = site + 1
    /\ UNCHANGED <<literalArray, auxDataArray, procs, objTable, numUnshares,
                   numCompiledBodies, procNameObjIndex, result, errorMsg, pre, path,
                   heap, a85, em, cf, xVars>>

(***************************************************************************)
(* The post-processing pass over the scripts of Menu.                      *)
(***************************************************************************)
Menu ==
    { Cmd("proc", 1, 2, 3), Cmd("push", 1, 7, 0), Cmd("jtab", 0, 0, 0),
      Cmd("jump", INST_JUMP1, 2, 0), Cmd("jump", INST_JUMP4, -1, 0),
      Cmd("jump", INST_JUMP_TRUE1, -1, 0), Cmd("jump", INST_JUMP_TRUE4, 2, 0),
      Cmd("jump", INST_JUMP_FALSE1, 2, 0), Cmd("jump", INST_JUMP_FALSE4, -1, 0) }

LitCounts == {253, 255}

Init == InitWith(Menu, LitCounts, TRUE)

Next ==
    \/ CreateProcBodyInfoArray
    \/ LoadObjRefInfoTable
    \/ UnshareProcBodies
    \/ CompileBody
    \/ UpdateByteCodes
    \/ RewriteSite

Spec == Init /\ [][Next]_vars

(***************************************************************************)
(* Scripts that mix proc commands whose body is compiled with commands the *)
(* scan of LoadProcBodyInfo rejects, in a compilation whose literal table  *)
(* is full enough for the global expansion.                                *)
(***************************************************************************)
SitesMenu ==
    { Cmd("proc", 1, 2, 3), Cmd("procv", 1, 2, 0), Cmd("procn", 1, 2, 3),
      Cmd("jump", INST_JUMP1, 2, 0), Cmd("jump", INST_JUMP4, -1, 0) }

InitSites == InitWith(SitesMenu, {255}, TRUE)

SpecSites == InitSites /\ [][Next]_vars

(***************************************************************************)
(* Scripts of proc commands that share body literals: commands with push1  *)
(* and push4 operands, with the args literals "a b", "{x(0) 1}" and        *)
(* "{a 1 2}", with args and body the same literal, commands the scan       *)
(* rejects (procv, procn, proc5), and a plain push of a body literal.      *)
(***************************************************************************)
UnshareMenu ==
    { Cmd("proc", 1, 2, 3), Cmd("proc", 4, 2, 3), Cmd("proc", 1, 2, 4),
      Cmd("proc", 1, 5, 3), Cmd("proc", 1, 6, 4), Cmd("proc", 1, 3, 3),
      Cmd("push", 1, 3, 0), Cmd("procv", 1, 2, 0), Cmd("procn", 1, 2, 3),
      Cmd("proc5", 1, 2, 3) }

UnshareLitCounts == {8, 254}

InitUnshare == InitWith(UnshareMenu, UnshareLitCounts, FALSE)

SpecUnshare == InitUnshare /\ [][Next]_vars

(***************************************************************************)
(* CompileObject around the post-processing pass: the compilation can fail *)
(* in the frontend, and ReleaseCompilerContext ends every compilation.     *)
(***************************************************************************)
\* TclSetByteCodeFromAny returns an error and PostProcessCompile is not
\* called; the proc commands compiled so far keep their InstLocList records
FrontendError ==
    /\ phase = "CreateProcBodyInfoArray"
    /\ phase' = "done"
    /\ result' = TCL_ERROR
    /\ UNCHANGED <<code, literalArray, cmdMap, exceptArray, auxDataArray, procs,
                   infoArray, objTable, numUnshares, numCompiledBodies,
                   procNameObjIndex, offset, site, errorMsg, pre, path,
                   heap, a85, em, cf, xVars>>

\* FreePostProcessInfo: the InstLocList records, the info array, the hash
\* table (Tcl_DeleteHashTable releases its entries, not the values they
\* hold) and the PostProcessInfo
FreePostProcessInfo(h, locs) ==
    Free(FreeProcBodyInfoArray(Free(h, "instLocList", locs)), "postProcessInfo", 1)

\* ReleaseCompilerContext, then CompileObject returns
ReleaseCompilerContext ==
    /\ phase = "done"
    /\ heap' = FreePostProcessInfo(heap, Len(procs))
    /\ phase' = "returned"
    /\ UNCHANGED <<code, literalArray, cmdMap, exceptArray, auxDataArray, procs,
                   infoArray, objTable, numUnshares, numCompiledBodies,
                   procNameObjIndex, offset, site, result, errorMsg, pre, path,
                   a85, em, cf, xVars>>

NextCompileObject ==
    \/ Next
    \/ FrontendError
    \/ ReleaseCompilerContext

SpecCompileObject == InitUnshare /\ [][NextCompileObject]_vars

(***************************************************************************)
(* The ASCII85 emitter.  Characters are their ASCII codes; the output       *)
(* channel is the sequence of the characters written so far.  A 32-bit     *)
(* word is held as [hi, lo], its two 16-bit halves.                        *)
(***************************************************************************)
ENCODED_BUFFER_SIZE == 72

\* 'z', '\n' and '0'
CharZ == 122
CharNewline == 10
CharZero == 48

encodeMap ==
    << 33, 118, 35, 119, 37, 38, 39, 40, 41, 42, 43, 44, 45, 46, 47,
       48, 49, 50, 51, 52, 53, 54, 55, 56, 57, 58, 59, 60, 61, 62,
       63, 64, 65, 66, 67, 68, 69, 70, 71, 72, 73, 74, 75, 76, 77,
       78, 79, 80, 81, 82, 83, 84, 85, 86, 87, 88, 89, 90, 120, 121,
       124, 94, 95, 96, 97, 98, 99, 100, 101, 102, 103, 104, 105, 106, 107,
       108, 109, 110, 111, 112, 113, 114, 115, 116, 117 >>

\* the unmodified ASCII85 alphabet
ENUnsafe(c) == 33 + c

\* #define EN(c) encodeMap[(c)]
EN(c) == encodeMap[c + 1]

\* snprintf("%d"): the decimal digits of a non-negative value
RECURSIVE FormatSize(_)
FormatSize(value) ==
    IF value < 10 THEN << CharZero + value >>
    ELSE Append(FormatSize(value \div 10), CharZero + (value % 10))

\* word <<= 8; word |= b
ShiftOr(word, b) ==
    [hi |-> ((word.hi * 256) + (word.lo \div 256)) % 65536,
     lo |-> ((word.lo % 256) * 256) + b]

\* for (i = 3; i >= 0; i--) { word <<= 8; word |= bytesPtr[i]; }
RECURSIVE PackFrom(_, _, _)
PackFrom(bytes4, i, word) ==
    IF i < 1 THEN word ELSE PackFrom(bytes4, i - 1, ShiftOr(word, bytes4[i]))

PackWord(bytes4) == PackFrom(bytes4, 4, [hi |-> 0, lo |-> 0])

\* word % 85UL and word / 85UL
Mod85(word) == (((word.hi % 85) * 65536) + word.lo) % 85

Div85(word) ==
    [hi |-> word.hi \div 85, lo |-> (((word.hi % 85) * 65536) + word.lo) \div 85]

\* toEmit[0..4]
RECURSIVE ToEmitFrom(_, _)
ToEmitFrom(word, i) ==
    IF i >= 5 THEN <<>> ELSE <<EN(Mod85(word))>> \o ToEmitFrom(Div85(word), i + 1)

SymbolsToEmitShort(count) == count

\* for (i = 0; i <= count; i++): the number of characters of a tuple
SymbolsToEmit(count) == count + 1

\* bytesPtr[count..3] = 0
PadTuple(bytes, count) == [i \in 1..4 |-> IF i <= count THEN bytes[i] ELSE 0]

TupleCharsAllFive(bytes, count) == ToEmitFrom(PackWord(PadTuple(bytes, count)), 0)

\* the characters A85EncodeBytes hands to A85EmitChar
TupleChars(bytes, count) ==
    LET word == PackWord(PadTuple(bytes, count))
    IN  IF word.hi = 0 /\ word.lo = 0 THEN << CharZ >>
        ELSE SubSeq(ToEmitFrom(word, 0), 1, SymbolsToEmit(count))

\* A85Flush on context ctx = [buf, out, failed, overflow]; wBuf and wSep say
\* whether the write of the buffer and the write of the separator succeed
A85Flush(ctx, wBuf, wSep) ==
    IF ~wBuf THEN [rc |-> TCL_ERROR, ctx |-> [ctx EXCEPT !.failed = TRUE]]
    ELSE IF ~wSep
         THEN [rc |-> TCL_ERROR,
               ctx |-> [ctx EXCEPT !.out = ctx.out \o ctx.buf, !.buf = <<>>,
                                   !.failed = TRUE]]
         ELSE [rc |-> TCL_OK,
               ctx |-> [ctx EXCEPT !.out = ctx.out \o ctx.buf \o << CharNewline >>,
                                   !.buf = <<>>]]

\* A85EmitChar; a store at curPtr == endPtr is outside encBuffer
A85EmitChar(ctx, toEmit, wBuf, wSep) ==
    IF ctx.overflow \/ Len(ctx.buf) >= ENCODED_BUFFER_SIZE
    THEN [rc |-> TCL_OK, ctx |-> [ctx EXCEPT !.overflow = TRUE]]
    ELSE LET stored == [ctx EXCEPT !.buf = Append(ctx.buf, toEmit)]
         IN  IF Len(stored.buf) >= ENCODED_BUFFER_SIZE
             THEN A85Flush(stored, wBuf, wSep)
             ELSE [rc |-> TCL_OK, ctx |-> stored]

\* the calls of A85EmitChar for the characters chars[i..]; the result codes
\* are dropped
RECURSIVE EmitChars(_, _, _, _, _)
EmitChars(ctx, chars, i, wBuf, wSep) ==
    IF i > Len(chars) THEN ctx
    ELSE EmitChars(A85EmitChar(ctx, chars[i], wBuf, wSep).ctx, chars, i + 1, wBuf, wSep)

\* the value A85EncodeBytes returns
A85EncodeBytesResult(anyEmitFailed) == TCL_OK

A85EncodeBytes(ctx, bytes, count, wBuf, wSep) ==
    LET after == EmitChars([ctx EXCEPT !.failed = FALSE],
                           TupleChars(bytes, count), 1, wBuf, wSep)
    IN  [rc |-> A85EncodeBytesResult(after.failed),
         failed |-> after.failed,
         ctx |-> [after EXCEPT !.failed = ctx.failed \/ after.failed]]

Context(a) == [buf |-> a.buf, out |-> a.out, failed |-> a.failed, overflow |-> a.overflow]

\* EmitByteSequence up to A85InitEncodeContext: the length line
EmitByteSequenceStart ==
    /\ a85.pc = "EmitTclSize"
    /\ \E w \in BOOLEAN :
         a85' = IF w
                THEN [a85 EXCEPT !.out = FormatSize(Len(a85.bytes)) \o << CharNewline >>,
                                 !.buf = <<>>,
                                 !.pc = "A85EncodeBytes"]
                ELSE [a85 EXCEPT !.failed = TRUE, !.rc = TCL_ERROR, !.pc = "returned"]
    /\ UNCHANGED <<rwVars, em, cf, xVars>>

\* one call of A85EncodeBytes from EmitByteSequence: for the next four
\* bytes, or for the bytes left over after the loop
EmitByteSequenceTuple ==
    /\ a85.pc = "A85EncodeBytes"
    /\ a85.pos < Len(a85.bytes)
    /\ \E wBuf \in BOOLEAN, wSep \in BOOLEAN :
         LET left == Len(a85.bytes) - a85.pos
             count == IF left >= 4 THEN 4 ELSE left
             bytes == SubSeq(a85.bytes, a85.pos + 1, a85.pos + count)
             r == A85EncodeBytes(Context(a85), bytes, count, wBuf, wSep)
         IN  a85' = [a85 EXCEPT !.buf = r.ctx.buf, !.out = r.ctx.out,
                                !.failed = r.ctx.failed,
                                !.overflow = r.ctx.overflow,
                                !.opFailed = r.failed, !.opRc = r.rc,
                                !.pos = a85.pos + count,
                                !.rc = r.rc,
                                !.pc = IF r.ctx.overflow THEN "overflow"
                                       ELSE IF r.rc # TCL_OK THEN "returned"
                                       ELSE "A85EncodeBytes"]
    /\ UNCHANGED <<rwVars, em, cf, xVars>>

\* return A85Flush(interp, &encodeCtx)
EmitByteSequenceEnd ==
    /\ a85.pc = "A85EncodeBytes"
    /\ a85.pos = Len(a85.bytes)
    /\ \E wBuf \in BOOLEAN, wSep \in BOOLEAN :
         LET r == A85Flush(Context(a85), wBuf, wSep)
         IN  a85' = [a85 EXCEPT !.buf = r.ctx.buf, !.out = r.ctx.out,
                                !.failed = r.ctx.failed,
                                !.rc = r.rc, !.pc = "returned"]
    /\ UNCHANGED <<rwVars, em, cf, xVars>>

\* after a store outside encBuffer the run can end with either result
EmitByteSequenceOverflow ==
    /\ a85.pc = "overflow"
    /\ \E rc \in {TCL_OK, TCL_ERROR} :
         a85' = [a85 EXCEPT !.rc = rc, !.pc = "returned"]
    /\ UNCHANGED <<rwVars, em, cf, xVars>>

ByteVals == {0, 1, 85, 255}

\* the first n bytes of the repetition of pat
Cycle(pat, n) == [i \in 1..n |-> pat[((i - 1) % Len(pat)) + 1]]

\* sequences long enough to fill the 72-character line buffer
LongInputs ==
    {Cycle(<<7, 130, 255, 64>>, n) : n \in 57..60}
    \cup {Cycle(<<85, 0, 0, 1, 0, 0, 0, 0, 1, 2, 3, 4, 255, 255, 255, 255, 9, 9, 9, 9>>, n) :
            n \in 72..74}

A85Inputs == SeqsUpTo(ByteVals, MaxBytes) \cup LongInputs

InitA85 ==
    /\ phase = "emit"
    /\ code = <<>>
    /\ literalArray = <<>>
    /\ cmdMap = <<>>
    /\ exceptArray = <<>>
    /\ auxDataArray = <<>>
    /\ procs = <<>>
    /\ infoArray = <<>>
    /\ objTable = <<>>
    /\ numUnshares = 0
    /\ numCompiledBodies = 0
    /\ procNameObjIndex = -1
    /\ offset = 0
    /\ site = 0
    /\ result = TCL_OK
    /\ errorMsg = <<>>
    /\ pre = NoPre
    /\ path = "none"
    /\ \E b \in A85Inputs : a85 = [A85Idle EXCEPT !.pc = "EmitTclSize", !.bytes = b]
    /\ em = EmIdle
    /\ heap = NoHeap
    /\ cf = CfIdle
    /\ xIdle

NextA85 ==
    \/ EmitByteSequenceStart
    \/ EmitByteSequenceTuple
    \/ EmitByteSequenceEnd
    \/ EmitByteSequenceOverflow

SpecA85 == InitA85 /\ [][NextA85]_vars

(***************************************************************************)
(* EmitByteCode: the image of a ByteCode structure on the channel.  Every  *)
(* Emit function is modelled by the sequence of the calls of Tcl_Write it  *)
(* makes, each call being the characters it writes; a run stops at the     *)
(* first call that fails.                                                  *)
(***************************************************************************)
CharSpace == 32

CharMinus == 45

CMP_INT_CODE == 105

CMP_DOUBLE_CODE == 100

CMP_STRING_CODE == 115

CMP_XSTRING_CODE == 120

CMP_PROCBODY_CODE == 112

CMP_BYTECODE_CODE == 99

CMP_LOOP_EXCEPTION_RANGE == 76

CMP_CATCH_EXCEPTION_RANGE == 67

CMP_JUMPTABLE_INFO == 74

CMP_DICTUPDATE_INFO == 68

CMP_NEW_FOREACH_INFO == 102

\* snprintf of a Tcl_Size with "%d"
FormatInt(value) ==
    IF value < 0 THEN << CharMinus >> \o FormatSize(0 - value) ELSE FormatSize(value)

EmitChar(value, separator) == << << value, separator >> >>

EmitTclSize(value, separator) == << Append(FormatInt(value), separator) >>

\* the string is written when it is not empty, then the separator
EmitString(src, separator) ==
    (IF Len(src) > 0 THEN << src >> ELSE <<>>) \o << << separator >> >>

\* the symbols of the tuples of bytes[pos..]
RECURSIVE A85Symbols(_, _)
A85Symbols(bytes, pos) ==
    IF pos >= Len(bytes) THEN <<>>
    ELSE LET left == Len(bytes) - pos
             count == IF left >= 4 THEN 4 ELSE left
         IN  TupleChars(SubSeq(bytes, pos + 1, pos + count), count)
             \o A85Symbols(bytes, pos + count)

\* EmitByteSequence on a sequence whose symbols do not fill the line
\* buffer: the length line, then A85Flush writes the buffer and the
\* separator
EmitByteSequence(bytes) ==
    EmitTclSize(Len(bytes), CharNewline)
    \o << A85Symbols(bytes, 0), << CharNewline >> >>

\* the length in bytes of a location array of n entries that starts at
\* position p of bytes
RECURSIVE CalculateLocArrayLength(_, _, _)
CalculateLocArrayLength(bytes, p, n) ==
    IF n = 0 THEN 0
    ELSE IF bytes[p] = 255
         THEN 5 + CalculateLocArrayLength(bytes, p + 5, n - 1)
         ELSE 1 + CalculateLocArrayLength(bytes, p + 1, n - 1)

CalculateLocMapSizes(codePtr) ==
    [codeDeltaSize |-> CalculateLocArrayLength(codePtr.codeDeltaStart, 1, codePtr.numCommands),
     codeLengthSize |-> CalculateLocArrayLength(codePtr.codeLengthStart, 1, codePtr.numCommands)]

\* EmitByteCode up to the support arrays: the header line and the three
\* byte sequences
EmitByteCodeHead(codePtr) ==
    LET locMapSizes == CalculateLocMapSizes(codePtr)
    IN  EmitTclSize(codePtr.numCommands, CharSpace)
        \o EmitTclSize(0, CharSpace)
        \o EmitTclSize(codePtr.numCodeBytes, CharSpace)
        \o EmitTclSize(codePtr.numLitObjects, CharSpace)
        \o EmitTclSize(codePtr.numExceptRanges, CharSpace)
        \o EmitTclSize(codePtr.numAuxDataItems, CharSpace)
        \o EmitTclSize(codePtr.numCmdLocBytes, CharSpace)
        \o EmitTclSize(codePtr.maxExceptDepth, CharSpace)
        \o EmitTclSize(codePtr.maxStackDepth, CharSpace)
        \o EmitTclSize(locMapSizes.codeDeltaSize, CharSpace)
        \o EmitTclSize(locMapSizes.codeLengthSize, CharSpace)
        \o EmitTclSize(-1, CharSpace)
        \o EmitTclSize(-1, CharNewline)
        \o EmitByteSequence(SubSeq(codePtr.codeStart, 1, codePtr.numCodeBytes))
        \o EmitByteSequence(SubSeq(codePtr.codeDeltaStart, 1, locMapSizes.codeDeltaSize))
        \o EmitByteSequence(SubSeq(codePtr.codeLengthStart, 1, locMapSizes.codeLengthSize))

\* the end of EmitObject: the type code, the length if asked for, the string
EmitObjectTail(typeCode, emitCount, objPtr) ==
    EmitChar(typeCode, CharNewline)
    \o (IF emitCount THEN EmitTclSize(Len(objPtr.bytes), CharNewline) ELSE <<>>)
    \o EmitString(objPtr.bytes, CharNewline)

EmitObjectAsString(objPtr) == EmitObjectTail(CMP_STRING_CODE, TRUE, objPtr)

\* EmitObject on an object that is neither an integer, a double, a bytecode
\* nor a procedure body
EmitObjectOther(objPtr) ==
    EmitChar(CMP_XSTRING_CODE, CharNewline) \o EmitByteSequence(objPtr.bytes)

\* EmitObject on an object that holds no image
EmitObjectValue(objPtr) ==
    IF objPtr.typePtr = "int" THEN EmitObjectTail(CMP_INT_CODE, FALSE, objPtr)
    ELSE IF objPtr.typePtr = "double" THEN EmitObjectTail(CMP_DOUBLE_CODE, FALSE, objPtr)
    ELSE EmitObjectOther(objPtr)

HoldsImage(objPtr) == objPtr.typePtr \in {"bytecode", "procbody"}

NameFromExcRange(type) ==
    IF type = LOOP_EXCEPTION_RANGE THEN CMP_LOOP_EXCEPTION_RANGE
    ELSE IF type = CATCH_EXCEPTION_RANGE THEN CMP_CATCH_EXCEPTION_RANGE
    ELSE 0

\* the line of one exception range
EmitExcRange(excPtr) ==
    EmitChar(NameFromExcRange(excPtr.type), CharSpace)
    \o EmitTclSize(excPtr.nestingLevel, CharSpace)
    \o EmitTclSize(excPtr.codeOffset, CharSpace)
    \o EmitTclSize(excPtr.numCodeBytes, CharSpace)
    \o EmitTclSize(excPtr.breakOffset, CharSpace)
    \o EmitTclSize(excPtr.continueOffset, CharSpace)
    \o EmitTclSize(excPtr.catchOffset, CharNewline)

RECURSIVE EmitJumptableEntries(_)
EmitJumptableEntries(entries) ==
    IF entries = <<>> THEN <<>>
    ELSE EmitTclSize(entries[1].value, CharNewline)
         \o EmitByteSequence(entries[1].key)
         \o EmitJumptableEntries(Tail(entries))

EmitJumptableInfo(infoPtr) ==
    EmitTclSize(Len(infoPtr.entries), CharNewline) \o EmitJumptableEntries(infoPtr.entries)

RECURSIVE EmitSizes(_, _)
EmitSizes(values, lastSeparator) ==
    IF values = <<>> THEN <<>>
    ELSE EmitTclSize(values[1], IF Len(values) = 1 THEN lastSeparator ELSE CharSpace)
         \o EmitSizes(Tail(values), lastSeparator)

RECURSIVE EmitSizeLines(_)
EmitSizeLines(values) ==
    IF values = <<>> THEN <<>>
    ELSE EmitTclSize(values[1], CharNewline) \o EmitSizeLines(Tail(values))

EmitDictUpdateInfo(infoPtr) ==
    EmitTclSize(Len(infoPtr.varIndices), CharNewline) \o EmitSizeLines(infoPtr.varIndices)

RECURSIVE EmitVarLists(_)
EmitVarLists(varLists) ==
    IF varLists = <<>> THEN <<>>
    ELSE EmitTclSize(Len(varLists[1]), CharNewline)
         \o EmitSizes(varLists[1], CharNewline)
         \o EmitVarLists(Tail(varLists))

EmitNewForeachInfo(infoPtr) ==
    EmitTclSize(Len(infoPtr.varLists), CharSpace)
    \o EmitTclSize(infoPtr.loopCtTemp, CharNewline)
    \o EmitVarLists(infoPtr.varLists)

KnownAuxTypes == {"JumptableInfo", "DictUpdateInfo", "NewForeachInfo"}

\* one record of EmitAuxDataArray, of a known type
EmitAuxData(auxDataPtr) ==
    IF auxDataPtr.type = "JumptableInfo"
    THEN EmitChar(CMP_JUMPTABLE_INFO, CharNewline) \o EmitJumptableInfo(auxDataPtr)
    ELSE IF auxDataPtr.type = "DictUpdateInfo"
    THEN EmitChar(CMP_DICTUPDATE_INFO, CharNewline) \o EmitDictUpdateInfo(auxDataPtr)
    ELSE EmitChar(CMP_NEW_FOREACH_INFO, CharNewline) \o EmitNewForeachInfo(auxDataPtr)

EmitCompiledLocal(localPtr) ==
    EmitByteSequence(localPtr.name)
    \o EmitTclSize(localPtr.frameIndex, CharSpace)
    \o EmitTclSize(IF localPtr.hasDef THEN 1 ELSE 0, CharSpace)
    \o EmitTclSize(localPtr.mask, CharNewline)
    \o (IF localPtr.hasDef THEN EmitObjectValue(localPtr.defValuePtr) ELSE <<>>)

RECURSIVE EmitCompiledLocals(_)
EmitCompiledLocals(locals) ==
    IF locals = <<>> THEN <<>>
    ELSE EmitCompiledLocal(locals[1]) \o EmitCompiledLocals(Tail(locals))

\* EmitProcBody after the image of the body
EmitProcBodyTail(procPtr) ==
    EmitTclSize(procPtr.numArgs, CharSpace)
    \o EmitTclSize(procPtr.numCompiledLocals, CharNewline)
    \o EmitCompiledLocals(procPtr.locals)

\* the characters of the writes ws
RECURSIVE Flat(_)
Flat(ws) == IF ws = <<>> THEN <<>> ELSE ws[1] \o Flat(Tail(ws))

\* what reaches the channel when the f-th write of ws fails (f = 0: none)
Written(ws, f) == IF f = 0 THEN Flat(ws) ELSE Flat(SubSeq(ws, 1, f - 1))

\* the writes of the records recs[1..n], one after the other
RECURSIVE Records(_, _)
Records(recs, n) == IF n = 0 THEN <<>> ELSE Records(recs, n - 1) \o recs[n]

\* the offsets in the channel at which the records recs[1..n] start when
\* the first starts at base
RecordOffsets(base, recs, n) ==
    [k \in 1..n |-> base + Len(Flat(Records(recs, k - 1)))]

\* the objects, images and procedures of the scripts that are emitted
Str(bytes) == [typePtr |-> "none", bytes |-> bytes, ref |-> 0]

Typed(type, bytes) == [typePtr |-> type, bytes |-> bytes, ref |-> 0]

Image(type, ref) == [typePtr |-> type, bytes |-> <<>>, ref |-> ref]

Range(type, codeOffset, count, target) ==
    [type |-> type, nestingLevel |-> 0, codeOffset |-> codeOffset, numCodeBytes |-> count,
     breakOffset |-> IF type = CATCH_EXCEPTION_RANGE THEN -1 ELSE target,
     continueOffset |-> -1,
     catchOffset |-> IF type = CATCH_EXCEPTION_RANGE THEN target ELSE -1]

Aux(type, entries, varIndices, varLists) ==
    [type |-> type, entries |-> entries, varIndices |-> varIndices,
     loopCtTemp |-> 1, varLists |-> varLists]

\* TclInitByteCodeObj: the counts of a ByteCode are the sizes of its arrays
ByteCode(codeBytes, deltas, lengths, objs, excs, auxs) ==
    [numCommands |-> Len(lengths), numCodeBytes |-> Len(codeBytes),
     numLitObjects |-> Len(objs), numExceptRanges |-> Len(excs),
     numAuxDataItems |-> Len(auxs), numCmdLocBytes |-> Len(deltas) + Len(lengths),
     maxExceptDepth |-> IF excs = <<>> THEN 0 ELSE 1, maxStackDepth |-> 3,
     codeStart |-> codeBytes, codeDeltaStart |-> deltas, codeLengthStart |-> lengths,
     objArrayPtr |-> objs, exceptArrayPtr |-> excs, auxDataArrayPtr |-> auxs]

Local(name, frameIndex, def) ==
    [name |-> name, frameIndex |-> frameIndex, mask |-> IF def = <<>> THEN 1 ELSE 3,
     hasDef |-> def # <<>>,
     defValuePtr |-> IF def = <<>> THEN Str(<<>>) ELSE def[1]]

\* the images held by literals: a body `set x 1`, and a body with a catch
NestedImages ==
    << ByteCode(<<1, 0, 1, 1, 17, 0, 0>>, <<0>>, <<6>>,
                << Str(<<120>>), Typed("int", <<49>>) >>, <<>>, <<>>),
       ByteCode(<<69, 0, 0, 0, 0, 1, 0, 3, 71, 0>>, <<0>>, <<9>>,
                << Str(<<>>) >>, << Range(CATCH_EXCEPTION_RANGE, 5, 3, 8) >>, <<>>) >>

\* the Proc structures of the procedure-body literals: their body is
\* NestedImages[body]
Procs ==
    << [body |-> 1, numArgs |-> 0, numCompiledLocals |-> 1,
        locals |-> << Local(<<120>>, 0, <<>>) >>],
       [body |-> 2, numArgs |-> 2, numCompiledLocals |-> 2,
        locals |-> << Local(<<97>>, 0, <<>>), Local(<<98>>, 1, << Str(<<104, 105>>) >>) >>] >>

ImageOfObject(objPtr) ==
    IF objPtr.typePtr = "procbody" THEN NestedImages[Procs[objPtr.ref].body]
    ELSE NestedImages[objPtr.ref]

\* the top-level images
TopImages ==
    { ByteCode(<<1, 0, 1, 1, 1, 2, 6, 3, 0>>, <<0>>, <<8>>,
               << Str(<<115, 101, 116>>), Str(<<120>>), Typed("int", <<49>>) >>, <<>>, <<>>),
      ByteCode(<<1, 0, 1, 1, 1, 2, 1, 3, 6, 4, 0>>, <<0>>, <<10>>,
               << Str(<<112, 114, 111, 99>>), Str(<<112>>), Str(<<97, 32, 98>>),
                  Image("procbody", 2), Image("bytecode", 1) >>,
               << Range(LOOP_EXCEPTION_RANGE, 0, 6, 10), Range(CATCH_EXCEPTION_RANGE, 2, 4, 8) >>,
               << Aux("JumptableInfo", << [key |-> <<97>>, value |-> 7],
                                          [key |-> <<0, 0, 0, 0, 0>>, value |-> 12] >>, <<>>, <<>>) >>),
      ByteCode(<<1, 0, 3, 1, 1, 0>>, <<0, 255, 0, 0, 1, 44>>, <<3, 2>>,
               << Typed("double", <<49, 46, 53>>), Typed("string", <<0, 255>>),
                  Image("procbody", 1) >>,
               <<>>,
               << Aux("NewForeachInfo", <<>>, <<>>, << <<1, 2>>, <<3>> >>),
                  Aux("DictUpdateInfo", <<>>, <<4, 5>>, <<>>) >>),
      ByteCode(<<0>>, <<0>>, <<1>>, <<>>,
               << Range(CATCH_EXCEPTION_RANGE, 0, 1, 0), Range("unknown", 0, 1, 0) >>, <<>>),
      ByteCode(<<0>>, <<0>>, <<1>>, << Str(<<>>) >>, <<>>,
               << Aux("DictUpdateInfo", <<>>, <<>>, <<>>), Aux("Unknown", <<>>, <<>>, <<>>) >>) }

NoProc == [body |-> 0, numArgs |-> 0, numCompiledLocals |-> 0, locals |-> <<>>]

\* a call of EmitByteCode: the image, the Proc when the call is made by
\* EmitProcBody, the loop index of EmitObjArray, and where in the channel
\* the header, the record of the literal that holds the image and the
\* records emitted so far start
Frame(kind, codePtr, procPtr, recAt, hdrAt) ==
    [kind |-> kind, codePtr |-> codePtr, procPtr |-> procPtr, i |-> 0,
     recAt |-> recAt, hdrAt |-> hdrAt, lits |-> <<>>, excs |-> <<>>, auxs |-> <<>>]

Top == em.stack[Len(em.stack)]

SetTop(stack, frame) == [stack EXCEPT ![Len(stack)] = frame]

Pop(stack) == SubSeq(stack, 1, Len(stack) - 1)

\* the run ends with an error after the f-th write of ws failed
Fails(ws, f) ==
    [em EXCEPT !.chan = em.chan \o Written(ws, f), !.rc = TCL_ERROR, !.pc = "returned"]

AfterObjectsOneShort(codePtr, i) ==
    IF i >= codePtr.numLitObjects - 1 THEN "EmitExcRangeArray" ELSE "EmitObject"

\* where EmitObjArray goes on after i objects
AfterObjects(codePtr, i) ==
    IF i >= codePtr.numLitObjects THEN "EmitExcRangeArray" ELSE "EmitObject"

\* EmitByteCode: the header and the byte sequences
EmitByteCodeStart ==
    /\ em.pc = "EmitByteCode"
    /\ LET ws == EmitByteCodeHead(Top.codePtr)
       IN  \E f \in 0..Len(ws) :
             em' = IF f # 0 THEN Fails(ws, f)
                   ELSE [em EXCEPT !.chan = em.chan \o Flat(ws), !.pc = "EmitObjArray"]
    /\ UNCHANGED <<rwVars, a85, cf, xVars>>

\* EmitObjArray: the count line
EmitObjArrayStart ==
    /\ em.pc = "EmitObjArray"
    /\ LET ws == EmitTclSize(Top.codePtr.numLitObjects, CharNewline)
       IN  \E f \in 0..Len(ws) :
             em' = IF f # 0 THEN Fails(ws, f)
                   ELSE [em EXCEPT !.chan = em.chan \o Flat(ws),
                                   !.pc = AfterObjects(Top.codePtr, 0)]
    /\ UNCHANGED <<rwVars, a85, cf, xVars>>

\* EmitObject on the next literal, which holds no image
EmitObject ==
    /\ em.pc = "EmitObject"
    /\ ~HoldsImage(Top.codePtr.objArrayPtr[Top.i + 1])
    /\ LET objPtr == Top.codePtr.objArrayPtr[Top.i + 1]
           ws == EmitObjectValue(objPtr)
       IN  \E f \in 0..Len(ws) :
             em' = IF f # 0
                   THEN [Fails(ws, f) EXCEPT
                           !.rec = [at |-> Len(em.chan), end |-> Len(em.chan) + Len(Written(ws, f)),
                                    objPtr |-> objPtr, rc |-> TCL_ERROR]]
                   ELSE [em EXCEPT
                           !.chan = em.chan \o Flat(ws),
                           !.rec = [at |-> Len(em.chan), end |-> Len(em.chan) + Len(Flat(ws)),
                                    objPtr |-> objPtr, rc |-> TCL_OK],
                           !.stack = SetTop(em.stack,
                                       [Top EXCEPT !.i = Top.i + 1,
                                                   !.lits = Append(Top.lits, Len(em.chan))]),
                           !.pc = AfterObjects(Top.codePtr, Top.i + 1)]
    /\ UNCHANGED <<rwVars, a85, cf, xVars>>

\* EmitObject on the next literal, which holds an image: the type code,
\* then the call of EmitByteCode, directly or from EmitProcBody
EmitObjectImage ==
    /\ em.pc = "EmitObject"
    /\ HoldsImage(Top.codePtr.objArrayPtr[Top.i + 1])
    /\ LET objPtr == Top.codePtr.objArrayPtr[Top.i + 1]
           isProc == objPtr.typePtr = "procbody"
           ws == EmitChar(IF isProc THEN CMP_PROCBODY_CODE ELSE CMP_BYTECODE_CODE, CharNewline)
       IN  \E f \in 0..Len(ws) :
             em' = IF f # 0 THEN Fails(ws, f)
                   ELSE [em EXCEPT
                           !.chan = em.chan \o Flat(ws),
                           !.stack = Append(em.stack,
                                       Frame(objPtr.typePtr, ImageOfObject(objPtr),
                                             IF isProc THEN Procs[objPtr.ref] ELSE NoProc,
                                             Len(em.chan), Len(em.chan) + Len(Flat(ws)))),
                           !.pc = "EmitByteCode"]
    /\ UNCHANGED <<rwVars, a85, cf, xVars>>

\* the number of leading exception ranges whose type has a name
RECURSIVE NamedRanges(_, _)
NamedRanges(excs, n) ==
    IF n >= Len(excs) \/ NameFromExcRange(excs[n + 1].type) = 0 THEN n
    ELSE NamedRanges(excs, n + 1)

\* EmitExcRangeArray: the count line and the lines of the ranges, up to the
\* first range whose type has no name
EmitExcRangeArray ==
    /\ em.pc = "EmitExcRangeArray"
    /\ LET excs == Top.codePtr.exceptArrayPtr
           n == NamedRanges(excs, 0)
           head == EmitTclSize(Top.codePtr.numExceptRanges, CharNewline)
           recs == [k \in 1..n |-> EmitExcRange(excs[k])]
           ws == head \o Records(recs, n)
       IN  \E f \in 0..Len(ws) :
             em' = IF f # 0 THEN Fails(ws, f)
                   ELSE IF n < Top.codePtr.numExceptRanges THEN Fails(ws, 0)
                   ELSE [em EXCEPT
                           !.chan = em.chan \o Flat(ws),
                           !.stack = SetTop(em.stack,
                                       [Top EXCEPT !.excs =
                                          RecordOffsets(Len(em.chan) + Len(Flat(head)), recs, n)]),
                           !.pc = "EmitAuxDataArray"]
    /\ UNCHANGED <<rwVars, a85, cf, xVars>>

\* the number of leading AuxData records of a known type
RECURSIVE KnownAuxData(_, _)
KnownAuxData(auxs, n) ==
    IF n >= Len(auxs) \/ auxs[n + 1].type \notin KnownAuxTypes THEN n
    ELSE KnownAuxData(auxs, n + 1)

\* what EmitByteCode leaves of a call that returned TCL_OK
Emitted(frame) ==
    [hdrAt |-> frame.hdrAt, lits |-> frame.lits, excs |-> frame.excs, auxs |-> frame.auxs]

\* the literal that holds the image of the top frame has been emitted:
\* EmitObject returns TCL_OK to EmitObjArray of the caller
ReturnToObjArray(stack, images) ==
    LET callee == stack[Len(stack)]
        caller == stack[Len(stack) - 1]
    IN  [stack |-> SetTop(Pop(stack),
                     [caller EXCEPT !.i = caller.i + 1,
                                    !.lits = Append(caller.lits, callee.recAt)]),
         pc |-> AfterObjects(caller.codePtr, caller.i + 1)]

\* EmitAuxDataArray: the count line and the records, up to the first
\* record of an unknown type, at which Tcl_Panic ends the process; then
\* EmitByteCode returns
EmitAuxDataArray ==
    /\ em.pc = "EmitAuxDataArray"
    /\ LET auxs == Top.codePtr.auxDataArrayPtr
           n == KnownAuxData(auxs, 0)
           head == EmitTclSize(Top.codePtr.numAuxDataItems, CharNewline)
           recs == [k \in 1..n |-> EmitAuxData(auxs[k])]
           ws == head \o Records(recs, n)
           done == [Top EXCEPT !.auxs = RecordOffsets(Len(em.chan) + Len(Flat(head)), recs, n)]
           stack == SetTop(em.stack, done)
           images == Append(em.images, Emitted(done))
       IN  \E f \in 0..Len(ws) :
             em' = IF f # 0 THEN Fails(ws, f)
                   ELSE IF n < Top.codePtr.numAuxDataItems
                   THEN [em EXCEPT !.chan = em.chan \o Flat(ws), !.pc = "panic"]
                   ELSE IF Top.kind = "top"
                   THEN [em EXCEPT !.chan = em.chan \o Flat(ws), !.stack = stack,
                                   !.images = images, !.rc = TCL_OK, !.pc = "returned"]
                   ELSE IF Top.kind = "procbody"
                   THEN [em EXCEPT !.chan = em.chan \o Flat(ws), !.stack = stack,
                                   !.images = images, !.pc = "EmitProcBody"]
                   ELSE [em EXCEPT !.chan = em.chan \o Flat(ws),
                                   !.stack = ReturnToObjArray(stack, images).stack,
                                   !.images = images,
                                   !.pc = ReturnToObjArray(stack, images).pc]
    /\ UNCHANGED <<rwVars, a85, cf, xVars>>

\* EmitProcBody after EmitByteCode returned TCL_OK: the fields of the Proc
\* and its compiled locals
EmitProcBody ==
    /\ em.pc = "EmitProcBody"
    /\ LET ws == EmitProcBodyTail(Top.procPtr)
       IN  \E f \in 0..Len(ws) :
             em' = IF f # 0 THEN Fails(ws, f)
                   ELSE [em EXCEPT !.chan = em.chan \o Flat(ws),
                                   !.stack = ReturnToObjArray(em.stack, em.images).stack,
                                   !.pc = ReturnToObjArray(em.stack, em.images).pc]
    /\ UNCHANGED <<rwVars, a85, cf, xVars>>

InitEmit ==
    /\ phase = "emit"
    /\ code = <<>>
    /\ literalArray = <<>>
    /\ cmdMap = <<>>
    /\ exceptArray = <<>>
    /\ auxDataArray = <<>>
    /\ procs = <<>>
    /\ infoArray = <<>>
    /\ objTable = <<>>
    /\ numUnshares = 0
    /\ numCompiledBodies = 0
    /\ procNameObjIndex = -1
    /\ offset = 0
    /\ site = 0
    /\ result = TCL_OK
    /\ errorMsg = <<>>
    /\ pre = NoPre
    /\ path = "none"
    /\ a85 = A85Idle
    /\ heap = NoHeap
    /\ cf = CfIdle
    /\ xIdle
    /\ \E codePtr \in TopImages :
         em = [EmIdle EXCEPT !.pc = "EmitByteCode",
                             !.stack = << Frame("top", codePtr, NoProc, 0, 0) >>,
                             !.rec = [at |-> 0, end |-> 0, objPtr |-> Str(<<>>), rc |-> TCL_OK]]

NextEmit ==
    \/ EmitByteCodeStart
    \/ EmitObjArrayStart
    \/ EmitObject
    \/ EmitObjectImage
    \/ EmitExcRangeArray
    \/ EmitAuxDataArray
    \/ EmitProcBody

SpecEmit == InitEmit /\ [][NextEmit]_vars

(***************************************************************************)
(* Compiler_CompileFile and the interpreter's literal table.  A bucket is  *)
(* the set of the literals chained in it; the bucket pointer of the table  *)
(* holds the name of the array it points to: the table's own               *)
(* staticBuckets, or an array of cf.mem.                                   *)
(***************************************************************************)
TCL_RETURN == 2

TCL_SMALL_HASH_TABLE == 4

REBUILD_MULTIPLIER == 3

\* most literals one compilation interns; REBUILD_MULTIPLIER *
\* TCL_SMALL_HASH_TABLE of them make the table leave its static buckets
MaxInterned == 13

NoBuckets == [i \in 1..TCL_SMALL_HASH_TABLE |-> {}]

\* the bucket array the table's bucket pointer designates
Chains(table, mem) ==
    IF table.buckets = "staticBuckets" THEN table.staticBuckets
    ELSE mem[table.buckets]

\* the inlined copy of TclInitLiteralTable
InitLiteralTable(table) ==
    [table EXCEPT !.buckets = "staticBuckets",
                  !.staticBuckets = NoBuckets,
                  !.numBuckets = TCL_SMALL_HASH_TABLE,
                  !.numEntries = 0,
                  !.rebuildSize = TCL_SMALL_HASH_TABLE * REBUILD_MULTIPLIER,
                  !.mask = 3]

\* the table the compiler filled is left in the interpreter
KeepCompilerLiterals(table, saved) == table

\* memcpy(&iPtr->literalTable, &glt, sizeof(LiteralTable))
RestoreLiterals(table, saved) == saved

\* the tables an interpreter can hold when Compiler_CompileFile is entered:
\* empty, small with literals of the application, and grown
EntryStates ==
    {[table |-> [buckets |-> "staticBuckets", staticBuckets |-> sb,
                 numBuckets |-> TCL_SMALL_HASH_TABLE,
                 numEntries |-> Cardinality(UNION {sb[i] : i \in 1..TCL_SMALL_HASH_TABLE}),
                 rebuildSize |-> TCL_SMALL_HASH_TABLE * REBUILD_MULTIPLIER,
                 mask |-> 3],
      mem |-> [entryArray |-> <<>>, compileArray |-> <<>>]] :
        sb \in {NoBuckets, <<{4}, {}, {}, {}>>, <<{4, 8}, {1}, {}, {3, 7}>>}}
    \cup
    {[table |-> [buckets |-> "entryArray", staticBuckets |-> NoBuckets,
                 numBuckets |-> 4 * TCL_SMALL_HASH_TABLE,
                 numEntries |-> 13,
                 rebuildSize |-> 4 * TCL_SMALL_HASH_TABLE * REBUILD_MULTIPLIER,
                 mask |-> 15],
      mem |-> [entryArray |-> [i \in 1..(4 * TCL_SMALL_HASH_TABLE) |->
                                   IF i <= 13 THEN {i - 1} ELSE {}],
               compileArray |-> <<>>]]}

\* one literal of the compiled script enters the table: it is chained in
\* the bucket of its hash, after the table has grown if it was full
RECURSIVE InternLiterals(_, _, _)
InternLiterals(table, mem, n) ==
    IF n = 0 THEN [table |-> table, mem |-> mem]
    ELSE LET before == InternLiterals(table, mem, n - 1)
             t == before.table
             old == Chains(t, before.mem)
             all == UNION {old[i] : i \in 1..t.numBuckets}
             grown == t.numEntries >= t.rebuildSize
             size == IF grown THEN 4 * t.numBuckets ELSE t.numBuckets
             lit == 100 + n
             chains == [i \in 1..size |->
                          {x \in all \cup {lit} :
                              /\ (x % size) + 1 = i
                              /\ grown \/ x = lit \/ x \in old[i]}]
             t2 == [t EXCEPT !.numEntries = @ + 1,
                             !.numBuckets = size,
                             !.rebuildSize = size * REBUILD_MULTIPLIER,
                             !.mask = size - 1,
                             !.buckets = IF grown THEN "compileArray" ELSE @,
                             !.staticBuckets = IF grown \/ t.buckets # "staticBuckets"
                                                 THEN @ ELSE chains]
         IN [table |-> t2,
             mem |-> IF grown \/ t.buckets # "staticBuckets"
                       THEN [before.mem EXCEPT !.compileArray = chains]
                       ELSE before.mem]

\* Compiler_CompileFile returns
Return(exit, res) ==
    cf' = [cf EXCEPT !.pc = "returned", !.exit = exit, !.result = res]

\* Tcl_TranslateFileName of the input name and of the output name
TranslateFileNames ==
    /\ cf.pc = "entry"
    /\ \/ Return("file-name error", TCL_ERROR)
       \/ cf' = [cf EXCEPT !.pc = "read"]
    /\ UNCHANGED <<rwVars, a85, em, xVars>>

\* stat, open, read and close of the input; then the literals are saved and
\* the table is made empty for the compiler
ReadInput ==
    /\ cf.pc = "read"
    /\ \/ \E failure \in {"stat", "open", "read", "close"} :
              Return("read error", TCL_ERROR)
       \/ cf' = [cf EXCEPT !.pc = "compile",
                           !.glt = cf.literalTable,
                           !.literalTable = InitLiteralTable(cf.literalTable)]
    /\ UNCHANGED <<rwVars, a85, em, xVars>>

\* Compiler_CompileObj interns the literals of the script; TCL_RETURN is
\* turned into the code TclUpdateReturnInfo gives
CompileObj ==
    /\ cf.pc = "compile"
    /\ \E n \in 0..MaxInterned, res \in {TCL_OK, TCL_ERROR, TCL_RETURN},
          updated \in {TCL_OK, TCL_ERROR} :
          LET after == InternLiterals(cf.literalTable, cf.mem, n)
              compiled == [cf EXCEPT !.literalTable = after.table,
                                     !.mem = after.mem,
                                     !.interned = n]
          IN  /\ res = TCL_RETURN \/ updated = res
              /\ cf' = IF res = TCL_OK
                         THEN [compiled EXCEPT !.pc = "write", !.result = TCL_OK]
                         ELSE [compiled EXCEPT !.pc = "restore", !.result = updated,
                                               !.exit = "compile error"]
    /\ UNCHANGED <<rwVars, a85, em, xVars>>

\* the output channel is opened, the preamble and the compiled object are
\* emitted, the channel is closed
WriteOutput ==
    /\ cf.pc = "write"
    /\ \E exit \in {"output-open error", "emission error", "close error", "success"} :
          cf' = [cf EXCEPT !.pc = "restore", !.exit = exit,
                           !.result = IF exit = "success" THEN TCL_OK ELSE TCL_ERROR]
    /\ UNCHANGED <<rwVars, a85, em, xVars>>

\* the literals are restored from the save buffer and the function returns
RestoreAndReturn ==
    /\ cf.pc = "restore"
    /\ cf' = [cf EXCEPT !.pc = "returned",
                        !.literalTable = RestoreLiterals(cf.literalTable, cf.glt)]
    /\ UNCHANGED <<rwVars, a85, em, xVars>>

InitFile ==
    /\ phase = "file"
    /\ code = <<>>
    /\ literalArray = <<>>
    /\ cmdMap = <<>>
    /\ exceptArray = <<>>
    /\ auxDataArray = <<>>
    /\ procs = <<>>
    /\ infoArray = <<>>
    /\ objTable = <<>>
    /\ numUnshares = 0
    /\ numCompiledBodies = 0
    /\ procNameObjIndex = -1
    /\ offset = 0
    /\ site = 0
    /\ result = TCL_OK
    /\ errorMsg = <<>>
    /\ pre = NoPre
    /\ path = "none"
    /\ a85 = A85Idle
    /\ em = EmIdle
    /\ heap = NoHeap
    /\ xIdle
    /\ \E e \in EntryStates :
          cf = [pc |-> "entry", literalTable |-> e.table, mem |-> e.mem,
                glt |-> InitLiteralTable(e.table),
                entry |-> [table |-> e.table, chains |-> Chains(e.table, e.mem)],
                result |-> TCL_OK, interned |-> 0, exit |-> "none"]

NextFile ==
    \/ TranslateFileNames
    \/ ReadInput
    \/ CompileObj
    \/ WriteOutput
    \/ RestoreAndReturn

SpecFile == InitFile /\ [][NextFile]_vars

(***************************************************************************)
(* CompileOneProcBody from the choice of the dummy command name on.  Texts *)
(* are sequences of character codes; the commands of the interpreter are   *)
(* the set of their names.                                                 *)
(***************************************************************************)
\* "$$compiler$$dummy%d"
dummyCommandName ==
    <<36, 36, 99, 111, 109, 112, 105, 108, 101, 114, 36, 36, 100, 117, 109,
      109, 121, 37, 100>>

\* "compilation of procedure \""
FailedHead ==
    <<99, 111, 109, 112, 105, 108, 97, 116, 105, 111, 110, 32, 111, 102,
      32, 112, 114, 111, 99, 101, 100, 117, 114, 101, 32, 34>>

\* "\" failed: "
FailedTail ==
    <<34, 32, 102, 97, 105, 108, 101, 100, 58, 32>>

\* "\n    (compiling body of proc \""
CompilingHead ==
    <<10, 32, 32, 32, 32, 40, 99, 111, 109, 112, 105, 108, 105, 110, 103,
      32, 98, 111, 100, 121, 32, 111, 102, 32, 112, 114, 111, 99, 32, 34>>

\* "\", line "
CompilingLine ==
    <<34, 44, 32, 108, 105, 110, 101, 32>>

\* ")"
CompilingTail ==
    <<41>>

\* "..."
Ellipsis ==
    <<46, 46, 46>>

\* char buf[100]
BufSize == 100

\* the longest part of a procedure name the second text shows
MaxShownName == 50

\* the largest value of the int dummyCommandCounter in the model; one more
\* wraps to the smallest
MaxCounter == 3

\* sprintf(cmdNameBuf, dummyCommandName, n)
DummyName(n) ==
    SubSeq(dummyCommandName, 1, Len(dummyCommandName) - 2) \o FormatInt(n)

\* dummyCommandCounter += 1
NextCounter(n) == IF n = MaxCounter THEN 0 - MaxCounter - 1 ELSE n + 1

\* sprintf(buf, "compilation of procedure \"%s\" failed: ", fullName)
FailedText(fullName) == FailedHead \o fullName \o FailedTail

\* sprintf(buf, "\n    (compiling body of proc \"%.*s%s\", line %d)", ...)
CompilingText(fullName, line) ==
    LET numChars == IF Len(fullName) > MaxShownName THEN MaxShownName ELSE Len(fullName)
        ellipsis == IF Len(fullName) > MaxShownName THEN Ellipsis ELSE <<>>
    IN CompilingHead \o SubSeq(fullName, 1, numChars) \o ellipsis
         \o CompilingLine \o FormatInt(line) \o CompilingTail

\* the bytes sprintf stores: the text and the terminating NUL
Stored(text) == Len(text) + 1

\* the names of procedures: the letter a repeated
ProcName(n) == [i \in 1..n |-> 97]

NameLengths == {1, 50, 51, 63, 64}

ErrorLines == {1, 9999999, 10000000}

\* the commands of the global namespace when CompileOneProcBody is entered
CommandSets ==
    SUBSET {dummyCommandName, DummyName(1), DummyName(2), <<112>>}

\* one turn of the loop: the name is formatted into cmdNameBuf,
\* Tcl_FindCommand is given dummyCommandName, the counter is incremented
DummyNameLoop ==
    /\ dm.pc = "name"
    /\ LET cmd == dummyCommandName \in dm.commands
       IN dm' = [dm EXCEPT !.cmdNameBuf = DummyName(dm.counter),
                           !.counter = NextCounter(dm.counter),
                           !.pc = IF cmd THEN "name" ELSE "create"]
    /\ UNCHANGED <<rwVars, a85, em, cf, hk, pr>>

\* Tcl_CreateObjCommand: a command that has this name is deleted and the
\* name is bound to the dummy procedure; a NULL token ends the function
CreateObjCommand ==
    /\ dm.pc = "create"
    /\ \/ dm' = [dm EXCEPT !.pc = "returned", !.result = TCL_ERROR]
       \/ dm' = [dm EXCEPT !.pc = "compile",
                           !.replaced = dm.cmdNameBuf \in dm.commands,
                           !.commands = @ \cup {dm.cmdNameBuf}]
    /\ UNCHANGED <<rwVars, a85, em, cf, hk, pr>>

\* the body is compiled; on TCL_ERROR the two texts are built in buf; the
\* dummy command is deleted on every outcome
SetFromAnyProc ==
    /\ dm.pc = "compile"
    /\ \E res \in {TCL_OK, TCL_ERROR, TCL_RETURN} :
          dm' = [dm EXCEPT !.pc = "returned",
                           !.result = res,
                           !.stored = IF res = TCL_ERROR
                                        THEN << Stored(FailedText(dm.fullName)),
                                                Stored(CompilingText(dm.fullName, dm.errorLine)) >>
                                        ELSE <<>>,
                           !.commands = @ \ {dm.cmdNameBuf}]
    /\ UNCHANGED <<rwVars, a85, em, cf, hk, pr>>

InitDummy ==
    /\ phase = "CompileOneProcBody"
    /\ code = <<>>
    /\ literalArray = <<>>
    /\ cmdMap = <<>>
    /\ exceptArray = <<>>
    /\ auxDataArray = <<>>
    /\ procs = <<>>
    /\ infoArray = <<>>
    /\ objTable = <<>>
    /\ numUnshares = 0
    /\ numCompiledBodies = 0
    /\ procNameObjIndex = -1
    /\ offset = 0
    /\ site = 0
    /\ result = TCL_OK
    /\ errorMsg = <<>>
    /\ pre = NoPre
    /\ path = "none"
    /\ a85 = A85Idle
    /\ em = EmIdle
    /\ heap = NoHeap
    /\ cf = CfIdle
    /\ hk = HkIdle
    /\ pr = PrIdle
    /\ \E cmds \in CommandSets, n \in {1, 2}, len \in NameLengths, line \in ErrorLines :
          dm = [pc |-> "name", commands |-> cmds, entry |-> cmds, counter |-> n,
                cmdNameBuf |-> <<>>, replaced |-> FALSE,
                fullName |-> ProcName(len), errorLine |-> line,
                result |-> TCL_OK, stored |-> <<>>]

NextDummy ==
    \/ DummyNameLoop
    \/ CreateObjCommand
    \/ SetFromAnyProc

SpecDummy == InitDummy /\ [][NextDummy]_vars

\* the function is not suspended for ever between two of its steps
FairDummy == InitDummy /\ [][NextDummy]_vars /\ WF_vars(NextDummy)

(***************************************************************************)
(* CompileObject: the compile procedure of the proc command, the proc      *)
(* sites the frontend pass records, and the counters of the interpreter's  *)
(* CompilerContext over successive compilations.  The frontend is the Tcl  *)
(* core: it emits the instructions of one command at a time and, for a     *)
(* proc command, calls the compile procedure the command has.              *)
(***************************************************************************)
INST_START_CMD == 105

\* the bytes of inst_start_cmd: the opcode and two 4-byte operands
StartCmdSize == 9

\* commands of one script and compilations of one interpreter
MaxTopCmds == 2

MaxCompiles == 2

NoCounters == [numProcs |-> 0, numCompiledBodies |-> 0,
               numUnsharedBodies |-> 0, numUnshares |-> 0]

\* the instructions the frontend emits for a command other than proc
TopLevelCode ==
    { <<INST_PUSH1, 0, INST_PUSH1, 1, INST_INVOKE_STK1, 2, INST_POP>>,
      <<INST_PUSH1, INST_START_CMD, INST_PUSH4, 0, 0, 1, 44, INST_INVOKE_STK1, 2, INST_POP>>,
      <<INST_LOAD_SCALAR1, 0, INST_POP>> }

\* inst_start_cmd with its two operands
StartCmd == <<INST_START_CMD, 0, 0, 0, 20, 0, 0, 0, 1>>

\* the out-of-line call of proc: four pushes, the invocation, the pop
ProcCall ==
    <<INST_PUSH1, 0, INST_PUSH1, 1, INST_PUSH1, 2, INST_PUSH1, 3,
      INST_INVOKE_STK1, 4, INST_POP>>

\* the record CreateInstLocList makes when the emitted code is codeSoFar
CreateInstLocList(codeSoFar, numCommands) ==
    LET bytecodeOffset == Len(codeSoFar)
    IN [bytecodeOffset |->
            IF bytecodeOffset >= StartCmdSize
               /\ codeSoFar[bytecodeOffset - StartCmdSize + 1] = INST_START_CMD
              THEN bytecodeOffset - StartCmdSize
              ELSE bytecodeOffset,
        commandIndex |-> numCommands - 1]

\* AppendInstLocList on the state h of the compilation
AppendInstLocList(h, codeSoFar) ==
    [h EXCEPT !.procs = Append(@, CreateInstLocList(codeSoFar, h.numCommands)),
              !.ctx.numProcs = @ + 1,
              !.sum.numProcs = @ + 1]

\* the compile procedure of proc is left as it is
KeepCompileProc(current, saved) == current

\* procCmdPtr->compileProc = savedCompileProc
RestoreCompileProc(current, saved) == saved

\* CompileObject up to the call of the frontend: the compile procedure of
\* proc is replaced when the command is found, and InitCompilerContext
\* makes a new PostProcessInfo and sets the counters of the context
CompileObjectStart ==
    /\ hk.pc \in {"CompileObject", "returned"}
    /\ hk.compiles < MaxCompiles
    /\ \E found \in BOOLEAN :
          hk' = [hk EXCEPT !.pc = "frontend",
                           !.compiles = @ + 1,
                           !.procCmdPtr = found,
                           !.compileProc = IF found THEN "LocalProcCompileProc" ELSE @,
                           !.code = <<>>,
                           !.numCommands = 0,
                           !.procs = <<>>,
                           !.starts = <<>>,
                           !.topLevel = 0,
                           !.ctx = NoCounters,
                           !.result = TCL_OK]
    /\ UNCHANGED <<rwVars, a85, em, cf, dm, pr>>

\* the frontend compiles a command that is not proc
CompileTopLevelCommand ==
    /\ hk.pc = "frontend"
    /\ hk.numCommands < MaxTopCmds
    /\ \E insts \in TopLevelCode :
          hk' = [hk EXCEPT !.code = @ \o insts, !.numCommands = @ + 1]
    /\ UNCHANGED <<rwVars, a85, em, cf, dm, pr>>

\* the frontend compiles a proc command: it may emit inst_start_cmd, calls
\* the compile procedure, which is LocalProcCompileProc when the hook is
\* installed, and after TCL_ERROR takes inst_start_cmd back and emits the
\* out-of-line call
LocalProcCompileProc ==
    /\ hk.pc = "frontend"
    /\ hk.numCommands < MaxTopCmds
    /\ \E prologue \in BOOLEAN :
          LET counted == [hk EXCEPT !.numCommands = @ + 1]
              codeSoFar == IF prologue THEN hk.code \o StartCmd ELSE hk.code
              seen == IF hk.compileProc = "LocalProcCompileProc"
                        THEN [AppendInstLocList(counted, codeSoFar)
                                EXCEPT !.starts = Append(@, Len(hk.code))]
                        ELSE counted
          IN hk' = [seen EXCEPT !.code = hk.code \o ProcCall,
                                !.topLevel = @ + 1]
    /\ UNCHANGED <<rwVars, a85, em, cf, dm, pr>>

\* the frontend fails: PostProcessCompile is not called
FrontendFails ==
    /\ hk.pc = "frontend"
    /\ hk' = [hk EXCEPT !.pc = "restore", !.result = TCL_ERROR]
    /\ UNCHANGED <<rwVars, a85, em, cf, dm, pr>>

\* PostProcessCompile up to the compilation of the bodies: the compile
\* procedure of proc is restored; UnshareProcBodies counts, for sites with
\* distinct bodies, one unshared body per site and one copy per body that
\* the code references elsewhere
PostProcessCompile ==
    /\ hk.pc = "frontend"
    /\ \E copies \in 0..Len(hk.procs) :
          hk' = [hk EXCEPT !.pc = "bodies",
                           !.compileProc = IF hk.procCmdPtr
                                             THEN RestoreCompileProc(@, "saved") ELSE @,
                           !.site = 0,
                           !.sites = Len(hk.procs),
                           !.ctx.numUnshares = @ + copies,
                           !.sum.numUnshares = @ + copies,
                           !.ctx.numUnsharedBodies = @ + Len(hk.procs),
                           !.sum.numUnsharedBodies = @ + Len(hk.procs)]
    /\ UNCHANGED <<rwVars, a85, em, cf, dm, pr>>

\* CompileOneProcBody of one site: the body may hold proc commands, for
\* which the compiler calls the compile procedure proc has at that time
CompileSiteBody ==
    /\ hk.pc = "bodies"
    /\ hk.site < hk.sites
    /\ \E nested \in BOOLEAN, res \in {TCL_OK, TCL_ERROR} :
          LET seen == IF nested /\ hk.compileProc = "LocalProcCompileProc"
                        THEN AppendInstLocList(hk, hk.code)
                        ELSE hk
          IN hk' = IF res = TCL_OK
                     THEN [seen EXCEPT !.site = @ + 1,
                                       !.ctx.numCompiledBodies = @ + 1,
                                       !.sum.numCompiledBodies = @ + 1]
                     ELSE [seen EXCEPT !.pc = "restore", !.result = TCL_ERROR]
    /\ UNCHANGED <<rwVars, a85, em, cf, dm, pr>>

\* all the bodies are compiled, PostProcessCompile returns
BodiesDone ==
    /\ hk.pc = "bodies"
    /\ hk.site = hk.sites
    /\ hk' = [hk EXCEPT !.pc = "restore"]
    /\ UNCHANGED <<rwVars, a85, em, cf, dm, pr>>

\* the end of CompileObject: the compile procedure of proc is restored and
\* the compiler context released
CompileObjectEnd ==
    /\ hk.pc = "restore"
    /\ hk' = [hk EXCEPT !.pc = "returned",
                        !.compileProc = IF hk.procCmdPtr
                                          THEN RestoreCompileProc(@, "saved") ELSE @]
    /\ UNCHANGED <<rwVars, a85, em, cf, dm, pr>>

InitHook ==
    /\ phase = "CompileObject"
    /\ code = <<>>
    /\ literalArray = <<>>
    /\ cmdMap = <<>>
    /\ exceptArray = <<>>
    /\ auxDataArray = <<>>
    /\ procs = <<>>
    /\ infoArray = <<>>
    /\ objTable = <<>>
    /\ numUnshares = 0
    /\ numCompiledBodies = 0
    /\ procNameObjIndex = -1
    /\ offset = 0
    /\ site = 0
    /\ result = TCL_OK
    /\ errorMsg = <<>>
    /\ pre = NoPre
    /\ path = "none"
    /\ a85 = A85Idle
    /\ em = EmIdle
    /\ heap = NoHeap
    /\ cf = CfIdle
    /\ dm = DmIdle
    /\ pr = PrIdle
    /\ hk = [pc |-> "CompileObject", compiles |-> 0, procCmdPtr |-> FALSE,
             compileProc |-> "saved", code |-> <<>>, numCommands |-> 0,
             procs |-> <<>>, starts |-> <<>>, topLevel |-> 0,
             site |-> 0, sites |-> 0,
             ctx |-> NoCounters, sum |-> NoCounters, result |-> TCL_OK]

NextHook ==
    \/ CompileObjectStart
    \/ CompileTopLevelCommand
    \/ LocalProcCompileProc
    \/ FrontendFails
    \/ PostProcessCompile
    \/ CompileSiteBody
    \/ BodiesDone
    \/ CompileObjectEnd

SpecHook == InitHook /\ [][NextHook]_vars

(***************************************************************************)
(* EmitScriptPreamble.  The function declares errObjPtr twice: at the top, *)
(* initialised to 0, and again in the branch that reads the result of the  *)
(* evaluation; pr.outer and pr.inner are the two variables.                *)
(***************************************************************************)
\* reference counts the result object can have when it is read
MaxRefCount == 5

\* texts of the loader error message that a script can have set
MaxMessage == 4

\* the default text, errorMessage
DefaultMessage == <<100>>

Messages == {[i \in 1..n |-> 109] : n \in 0..MaxMessage}

\* "variable errorVariable; set errorVariable" is evaluated; when it
\* succeeds the result object is read and a reference to it is taken
EvalErrorVariable ==
    /\ pr.pc = "eval"
    /\ \/ pr' = [pr EXCEPT !.pc = "emit", !.rc = TCL_ERROR,
                           !.errMsgPtr = DefaultMessage]
       \/ pr' = [pr EXCEPT !.pc = "emit", !.rc = TCL_OK,
                           !.inner = "result",
                           !.refCount = @ + 1,
                           !.added = @ + 1,
                           !.errMsgPtr = pr.bytes]
    /\ UNCHANGED <<rwVars, a85, em, cf, dm, hk>>

\* the preamble is formatted and written with EmitString
EmitPreambleString ==
    /\ pr.pc = "emit"
    /\ \E written \in {TCL_OK, TCL_ERROR} :
          pr' = [pr EXCEPT !.pc = "release", !.result = written]
    /\ UNCHANGED <<rwVars, a85, em, cf, dm, hk>>

\* if (errObjPtr) Tcl_DecrRefCount(errObjPtr), on the variable declared at
\* the top of the function; then the function returns
ReleaseErrObj ==
    /\ pr.pc = "release"
    /\ pr' = IF pr.outer # "NULL"
               THEN [pr EXCEPT !.pc = "returned", !.refCount = @ - 1, !.added = @ - 1]
               ELSE [pr EXCEPT !.pc = "returned"]
    /\ UNCHANGED <<rwVars, a85, em, cf, dm, hk>>

InitPreamble ==
    /\ phase = "EmitScriptPreamble"
    /\ code = <<>>
    /\ literalArray = <<>>
    /\ cmdMap = <<>>
    /\ exceptArray = <<>>
    /\ auxDataArray = <<>>
    /\ procs = <<>>
    /\ infoArray = <<>>
    /\ objTable = <<>>
    /\ numUnshares = 0
    /\ numCompiledBodies = 0
    /\ procNameObjIndex = -1
    /\ offset = 0
    /\ site = 0
    /\ result = TCL_OK
    /\ errorMsg = <<>>
    /\ pre = NoPre
    /\ path = "none"
    /\ a85 = A85Idle
    /\ em = EmIdle
    /\ heap = NoHeap
    /\ cf = CfIdle
    /\ dm = DmIdle
    /\ hk = HkIdle
    /\ \E refs \in 1..MaxRefCount, text \in Messages :
          pr = [pc |-> "eval", rc |-> TCL_OK, outer |-> "NULL", inner |-> "NULL",
                bytes |-> text, refCount |-> refs, added |-> 0,
                errMsgPtr |-> <<>>, result |-> TCL_OK]

NextPreamble ==
    \/ EvalErrorVariable
    \/ EmitPreambleString
    \/ ReleaseErrObj

SpecPreamble == InitPreamble /\ [][NextPreamble]_vars

(***************************************************************************)
(* Properties of the rewriter.  The shift Delta of the specification is    *)
(* restated here from its definition: three bytes for every push1, jump1,  *)
(* jump_true1 and jump_false1 that starts to the left of the offset.       *)
(***************************************************************************)
ShortForms == {INST_PUSH1, INST_JUMP1, INST_JUMP_TRUE1, INST_JUMP_FALSE1}

Delta(c, h) == 3 * Cardinality({o \in InstStarts(c) : o < h /\ At(c, o) \in ShortForms})

AfterGlobalExpansion == path = "global" /\ phase \in {"RewriteSite", "done"}

JumpOps == {INST_JUMP1, INST_JUMP_TRUE1, INST_JUMP_FALSE1,
            INST_JUMP4, INST_JUMP_TRUE4, INST_JUMP_FALSE4}

LongForm(op) == IF op \in {INST_JUMP1, INST_JUMP_TRUE1, INST_JUMP_FALSE1} THEN op + 1 ELSE op

\* the operand of the jump at h in c
JumpOperand(c, h) ==
    IF numBytes(At(c, h)) = 2 THEN TclGetInt1AtPtr(c, h + 1) ELSE TclGetInt4AtPtr(c, h + 1)

\* C1 (as claimed): after the global expansion every exception range with
\* original start s and length n starts at s + Delta[s], has length
\* n + Delta[s+n] - Delta[s], and its catch or break and continue offsets c
\* are c + Delta[c].
C1_RangesFollowExpansion ==
    AfterGlobalExpansion =>
      \A j \in 1..Len(exceptArray) :
        LET old == pre.exceptArray[j]
            new == exceptArray[j]
            s == old.codeOffset
            n == old.numCodeBytes
        IN  /\ new.codeOffset = s + Delta(pre.code, s)
            /\ new.numCodeBytes = n + Delta(pre.code, s + n) - Delta(pre.code, s)
            /\ old.type = CATCH_EXCEPTION_RANGE =>
                 new.catchOffset = old.catchOffset + Delta(pre.code, old.catchOffset)
            /\ old.type = LOOP_EXCEPTION_RANGE =>
                 /\ new.breakOffset = old.breakOffset + Delta(pre.code, old.breakOffset)
                 /\ new.continueOffset =
                      old.continueOffset + Delta(pre.code, old.continueOffset)

\* C2: after the global expansion the jump that was at h with target t is a
\* 4-byte-operand jump of the same kind at h + Delta[h], and its operand
\* leads from there to t + Delta[t].
C2_JumpsFollowTargets ==
    AfterGlobalExpansion =>
      \A h \in InstStarts(pre.code) :
        At(pre.code, h) \in JumpOps =>
          LET t == h + JumpOperand(pre.code, h)
              h2 == h + Delta(pre.code, h)
          IN  /\ At(code, h2) = LongForm(At(pre.code, h))
              /\ h2 + TclGetInt4AtPtr(code, h2 + 1) = t + Delta(pre.code, t)

\* a state after the global expansion where a short jump and a long jump
\* each cross instructions that grew
C2_Witness ==
    /\ AfterGlobalExpansion
    /\ \E h \in InstStarts(pre.code) :
         /\ At(pre.code, h) = INST_JUMP_TRUE1
         /\ Delta(pre.code, h + JumpOperand(pre.code, h)) # Delta(pre.code, h)
    /\ \E h \in InstStarts(pre.code) :
         /\ At(pre.code, h) = INST_JUMP_FALSE4
         /\ Delta(pre.code, h + JumpOperand(pre.code, h)) # Delta(pre.code, h)

\* the image of the instruction that starts at offset o of c0: the
\* instruction of c1 with the same ordinal
Ordinal(c, o) == Cardinality({x \in InstStarts(c) : x < o})

ImageOf(c0, c1, o) == CHOOSE x \in InstStarts(c1) : Ordinal(c1, x) = Ordinal(c0, o)

\* C5 (as claimed): after an expansion, each target offset of a jump table,
\* taken relative to its jumpTable instruction, designates the image of the
\* instruction it designated before.
C5_JumpTableTargetsFollow ==
    (phase = "done" /\ path \in {"global", "local"}) =>
      \A h \in InstStarts(pre.code) :
        At(pre.code, h) = INST_JUMP_TABLE =>
          LET targets == auxDataArray[TclGetUInt4AtPtr(pre.code, h + 1) + 1]
          IN  \A e \in 1..Len(targets) :
                ImageOf(pre.code, code, h) + targets[e]
                  = ImageOf(pre.code, code, h + targets[e])

\* the rewrite keeps the number of instructions of the code
SameInstructionCount ==
    phase = "done" /\ path # "none" =>
      Cardinality(InstStarts(code)) = Cardinality(InstStarts(pre.code))

(***************************************************************************)
(* Properties of unsharing and of the compilation of the bodies.           *)
(***************************************************************************)
Compilable(i) == infoArray[i].bodyNewIndex # -1

AfterUnshare == phase = "CompileOneProcBody"

\* the sites that name literal x as their body
SitesOf(x) == {i \in 1..Len(infoArray) : infoArray[i].bodyOrigIndex = x}

\* the offsets of the pushes of literal x in the code
PushesOf(x) == {o \in InstStarts(code) : IsPush(code, o) /\ PushOperand(code, o) = x}

\* site i has the args literal "{x(0) 1}", a formal that is an array element
HasArrayElementFormal(i) ==
    /\ Compilable(i)
    /\ literalArray[infoArray[i].argsIndex + 1].str = "{x(0) 1}"

\* C3 (as claimed): a site whose args literal has a formal that is an array
\* element stops the compile with an error: the loop does not go past the
\* site, the bytecodes are not rewritten, and the result is an error.
C3_ArrayElementFormalIsError ==
    \A i \in 1..Len(infoArray) :
      HasArrayElementFormal(i) =>
        /\ ~(phase = "CompileOneProcBody" /\ site > i)
        /\ phase \notin {"UpdateByteCodes", "RewriteSite"}
        /\ phase = "done" => result = TCL_ERROR

\* C4 (as claimed): when the post-processing ends with success, every site
\* with a body index has a compiled procedure body at that index and a body
\* push of that index, and no site was rewritten to bcproc with a body that
\* is not compiled.
C4_RewrittenSitesAreCompiled ==
    (phase = "done" /\ result = TCL_OK) =>
      \A i \in 1..Len(infoArray) :
        Compilable(i) =>
          /\ literalArray[infoArray[i].bodyNewIndex + 1].typ = "procbody"
          /\ PushOperand(code, infoArray[i].bodyOffset) = infoArray[i].bodyNewIndex

\* C9: after UnshareProcBodies the body indexes of the sites are pairwise
\* distinct, and every push of such an index is the body push of a site that
\* has a body index.
C9_BodyIndexesUnshared ==
    AfterUnshare =>
      \A i \in 1..Len(infoArray) :
        Compilable(i) =>
          /\ \A j \in 1..Len(infoArray) :
               (j # i /\ Compilable(j)) =>
                 infoArray[j].bodyNewIndex # infoArray[i].bodyNewIndex
          /\ \A o \in PushesOf(infoArray[i].bodyNewIndex) :
               \E j \in 1..Len(infoArray) : Compilable(j) /\ infoArray[j].bodyOffset = o

\* two sites share a body literal that another push names too
C9_Witness ==
    /\ AfterUnshare
    /\ \E x \in 0..(Len(BaseLiterals) - 1) :
         Cardinality(SitesOf(x)) >= 2 /\ Cardinality(PushesOf(x)) > Cardinality(SitesOf(x))

\* the appended literals that are copies of literal x
CopiesOf(x) ==
    {k \in (Len(BaseLiterals) + 1)..Len(literalArray) :
        literalArray[k].str = BaseLiterals[x + 1]}

Min(S) == CHOOSE m \in S : \A n \in S : m <= n

\* C10: a literal that is the body of N >= 2 sites and that no other push
\* names stays the body of the first of them; the other N - 1 sites get
\* appended copies, and exactly N - 1 copies are appended.
C10_FirstSiteKeepsBody ==
    AfterUnshare =>
      \A x \in 0..(Len(BaseLiterals) - 1) :
        (Cardinality(SitesOf(x)) >= 2 /\ Cardinality(PushesOf(x)) = Cardinality(SitesOf(x))) =>
          /\ infoArray[Min(SitesOf(x))].bodyNewIndex = x
          /\ \A i \in SitesOf(x) \ {Min(SitesOf(x))} :
               infoArray[i].bodyNewIndex + 1 \in CopiesOf(x)
          /\ \A i, j \in SitesOf(x) :
               i # j => infoArray[i].bodyNewIndex # infoArray[j].bodyNewIndex
          /\ Cardinality(CopiesOf(x)) = Cardinality(SitesOf(x)) - 1

\* three sites share a body that nothing else names
C10_Witness ==
    /\ AfterUnshare
    /\ Cardinality(SitesOf(3)) = 3
    /\ Cardinality(PushesOf(3)) = 3
    /\ Cardinality(CopiesOf(3)) = 2

(***************************************************************************)
(* Properties of the emitter.                                              *)
(***************************************************************************)
\* C6 (as claimed): when a write to the channel has failed, the call of
\* A85EncodeBytes in which it failed returns an error, and EmitByteSequence
\* does not return success.
C6_FailedWriteIsError ==
    ~a85.overflow =>
      /\ a85.opFailed => a85.opRc = TCL_ERROR
      /\ (a85.pc = "returned" /\ a85.failed) => a85.rc = TCL_ERROR

\* the inverse of the encoder: the value of a symbol
ValueOf(sym) == CHOOSE v \in 0..84 : encodeMap[v + 1] = sym

\* word * 85 + d
MulAdd85(word, d) ==
    [hi |-> ((word.hi * 85) + (((word.lo * 85) + d) \div 65536)) % 65536,
     lo |-> ((word.lo * 85) + d) % 65536]

\* the word of base-85 digits given least significant first
RECURSIVE WordOfDigits(_)
WordOfDigits(ds) ==
    IF ds = <<>> THEN [hi |-> 0, lo |-> 0]
    ELSE MulAdd85(WordOfDigits(Tail(ds)), ds[1])

BytesOfWord(word) ==
    << word.lo % 256, word.lo \div 256, word.hi % 256, word.hi \div 256 >>

\* decode the symbols from position i on: 'z' is four zero bytes, otherwise
\* the next five symbols (fewer at the end, the missing ones read as '!')
RECURSIVE DecodeFrom(_, _)
DecodeFrom(syms, i) ==
    IF i > Len(syms) THEN <<>>
    ELSE IF syms[i] = CharZ THEN <<0, 0, 0, 0>> \o DecodeFrom(syms, i + 1)
    ELSE LET last == IF i + 4 <= Len(syms) THEN i + 4 ELSE Len(syms)
             ds == [k \in 1..5 |-> IF i + k - 1 <= last THEN ValueOf(syms[i + k - 1]) ELSE 0]
         IN  BytesOfWord(WordOfDigits(ds)) \o DecodeFrom(syms, last + 1)

RECURSIVE ParseSize(_)
ParseSize(ds) ==
    IF ds = <<>> THEN 0
    ELSE (ParseSize(SubSeq(ds, 1, Len(ds) - 1)) * 10)
         + (ds[Len(ds)] - CharZero)

\* the output of EmitByteSequence read back: the length line, then the
\* symbols with the line separators removed, cut to the length
DecodeOutput(out) ==
    LET eol == CHOOSE i \in 1..Len(out) : out[i] = CharNewline /\ \A j \in 1..(i - 1) : out[j] # CharNewline
        size == ParseSize(SubSeq(out, 1, eol - 1))
        syms == SelectSeq(SubSeq(out, eol + 1, Len(out)), LAMBDA ch : ch # CharNewline)
    IN  SubSeq(DecodeFrom(syms, 1), 1, size)

EmittedWithoutFailure == a85.pc = "returned" /\ a85.rc = TCL_OK /\ ~a85.failed /\ ~a85.overflow

\* C7: the output of a run of EmitByteSequence in which every write
\* succeeded decodes back to the byte sequence it was given.
C7_A85RoundTrip ==
    EmittedWithoutFailure => DecodeOutput(a85.out) = a85.bytes

\* a sequence with a zero tuple and a short last tuple that spans more than
\* one line has been emitted
C7_Witness ==
    /\ EmittedWithoutFailure
    /\ Len(a85.bytes) = 73
    /\ \E i \in 1..Len(a85.out) : a85.out[i] = CharZ

\* the characters " $ { } [ ] and backslash
ForbiddenChars == {34, 36, 123, 125, 91, 93, 92}

\* the characters written after the length line, and those still buffered
FieldChars ==
    LET nl == {i \in 1..Len(a85.out) : a85.out[i] = CharNewline}
    IN  IF nl = {} THEN {}
        ELSE {a85.out[i] : i \in ((CHOOSE m \in nl : \A n \in nl : m <= n) + 1)..Len(a85.out)}
             \cup {a85.buf[i] : i \in 1..Len(a85.buf)}

\* C8: none of the characters of a byte-sequence field, none of the 85
\* entries of encodeMap and not the zero marker is one of " $ { } [ ] \.
C8_SafeAlphabet ==
    /\ FieldChars \cap ForbiddenChars = {}
    /\ \A c \in 0..84 : EN(c) \notin ForbiddenChars
    /\ CharZ \notin ForbiddenChars

\* a field with the zero marker and with the symbols of the values 1 and 3
C8_Witness ==
    /\ a85.pc = "returned"
    /\ {CharZ, EN(1), EN(3)} \subseteq FieldChars

(***************************************************************************)
(* Further properties of the rewriter.                                     *)
(***************************************************************************)
\* the offsets of the short-form instructions of c
ShortFormsOf(c) == {o \in InstStarts(c) : At(c, o) \in ShortForms}

\* the literal index k of tbcload::bcproc is at least 255 and the code that
\* came in has a jump
BigWithJump ==
    /\ phase \in {"RewriteSite", "done"}
    /\ path # "none"
    /\ procNameObjIndex >= 255
    /\ \E o \in InstStarts(pre.code) : At(pre.code, o) \in JumpOps

\* C11: after the global expansion the code has no push1, jump1, jump_true1
\* or jump_false1, and it is longer than the original code by three bytes
\* for each of these instructions of the original code.
C11_NoShortFormsRemain ==
    BigWithJump =>
      /\ ShortFormsOf(code) = {}
      /\ Len(code) = Len(pre.code) + (3 * Cardinality(ShortFormsOf(pre.code)))

\* a code with pushes and short jumps has been expanded
C11_Witness ==
    /\ BigWithJump
    /\ phase = "done"
    /\ \E o \in ShortFormsOf(pre.code) : At(pre.code, o) = INST_PUSH1
    /\ \E o \in ShortFormsOf(pre.code) : At(pre.code, o) = INST_JUMP_FALSE1

Rewritten == phase = "done" /\ path # "none"

\* C12: after the rewrite, on either path, the code offset of every command
\* is the offset of the image of the instruction that was the first of the
\* command.
C12_CommandsStartAtImages ==
    Rewritten =>
      \A i \in 1..Len(cmdMap) :
        cmdMap[i].codeOffset = ImageOf(pre.code, code, pre.cmdMap[i].codeOffset)

\* a command that follows a widened push has moved
C12_Witness ==
    /\ Rewritten
    /\ path = "local"
    /\ \E i \in 1..Len(cmdMap) : cmdMap[i].codeOffset > pre.cmdMap[i].codeOffset + 3

\* the sites of the table as it was before the rewrite that have a body index
CompilableBefore == {i \in 1..Len(pre.infoArray) : pre.infoArray[i].bodyNewIndex # -1}

\* the offsets, before the rewrite, of the pushes that the rewrite patches:
\* the proc-name push of every site with a body index, and its body push
\* when the body index changed
PatchedPushes ==
    {pre.infoArray[i].procOffset : i \in CompilableBefore}
    \cup {pre.infoArray[i].bodyOffset :
            i \in {j \in CompilableBefore :
                     pre.infoArray[j].bodyNewIndex # pre.infoArray[j].bodyOrigIndex}}

HasShortJump(c) ==
    \E o \in InstStarts(c) : At(c, o) \in {INST_JUMP1, INST_JUMP_TRUE1, INST_JUMP_FALSE1}

HasJump(c) == \E o \in InstStarts(c) : At(c, o) \in JumpOps

\* every push1 that is not patched is still a push1
OtherPushesStayShort ==
    \A o \in InstStarts(pre.code) :
      (At(pre.code, o) = INST_PUSH1 /\ o \notin PatchedPushes) =>
        At(code, ImageOf(pre.code, code, o)) = INST_PUSH1

BigRewritten == Rewritten /\ procNameObjIndex >= 255

\* C18 (as claimed): with k >= 255 the global expansion is performed exactly
\* when the code has a short-form jump; a code whose jumps are all 4-byte
\* forms, or that has no jump, keeps every push1 that is not patched.
C18_GlobalOnlyForShortJumps ==
    BigRewritten =>
      /\ HasShortJump(pre.code) => ShortFormsOf(code) = {}
      /\ ~HasShortJump(pre.code) => OtherPushesStayShort

\* C18 (amended): with k >= 255 the global expansion is performed when the
\* code has a jump of any of the six forms, and then no short form remains;
\* a code without any jump keeps every push1 that is not patched.
C18_GlobalForAnyJump ==
    BigRewritten =>
      /\ HasJump(pre.code) => ShortFormsOf(code) = {}
      /\ ~HasJump(pre.code) => OtherPushesStayShort

\* a code whose only jumps are 4-byte forms went through the global expansion
C18_Witness ==
    /\ BigRewritten
    /\ path = "global"
    /\ ~HasShortJump(pre.code)
    /\ \E o \in InstStarts(pre.code) : At(pre.code, o) = INST_PUSH1 /\ o \notin PatchedPushes

LocalRewritten == Rewritten /\ path = "local"

\* C19: with k >= 255 and no jump, after the localized expansions the
\* offsets of every site with a body index are the offsets of the images of
\* its proc-name push and body push, which push k and the body index, and
\* the start, the end and the catch or break and continue offsets of every
\* exception range are the offsets of the images of the instructions they
\* designated.
C19_LocalShiftsKeepOffsets ==
    LocalRewritten =>
      /\ \A i \in CompilableBefore :
           /\ infoArray[i].procOffset = ImageOf(pre.code, code, pre.infoArray[i].procOffset)
           /\ infoArray[i].bodyOffset = ImageOf(pre.code, code, pre.infoArray[i].bodyOffset)
           /\ IsPush(code, infoArray[i].procOffset)
           /\ PushOperand(code, infoArray[i].procOffset) = procNameObjIndex
           /\ IsPush(code, infoArray[i].bodyOffset)
           /\ PushOperand(code, infoArray[i].bodyOffset) = infoArray[i].bodyNewIndex
      /\ \A j \in 1..Len(exceptArray) :
           LET old == pre.exceptArray[j]
               new == exceptArray[j]
               Img(o) == ImageOf(pre.code, code, o)
           IN  /\ new.codeOffset = Img(old.codeOffset)
               /\ new.codeOffset + new.numCodeBytes = Img(old.codeOffset + old.numCodeBytes)
               /\ old.type = CATCH_EXCEPTION_RANGE => new.catchOffset = Img(old.catchOffset)
               /\ old.type = LOOP_EXCEPTION_RANGE =>
                    /\ new.breakOffset = Img(old.breakOffset)
                    /\ new.continueOffset = Img(old.continueOffset)

\* two sites were rewritten, the second with a widened body push, under an
\* exception range that starts at a widened push
C19_Witness ==
    /\ LocalRewritten
    /\ Cardinality(CompilableBefore) >= 2
    /\ \E i \in CompilableBefore : infoArray[i].bodyNewIndex >= 255
    /\ \E j \in 1..Len(exceptArray) : pre.exceptArray[j].codeOffset \in PatchedPushes

\* the positions (1-based) of the operand bytes of the push at offset o
OperandPositions(c, o) == (o + 2)..(o + numBytes(At(c, o)))

InPlaceRewritten == Rewritten /\ procNameObjIndex < 255

\* C20: with k < 255 the rewrite keeps the length of the code, every opcode,
\* the command locations, the exception ranges and the offsets of the
\* sites; the bytes that change are operand bytes of patched pushes, which
\* then push k and the body index.
C20_InPlaceKeepsLayout ==
    InPlaceRewritten =>
      /\ Len(code) = Len(pre.code)
      /\ InstStarts(code) = InstStarts(pre.code)
      /\ \A o \in InstStarts(code) : At(code, o) = At(pre.code, o)
      /\ cmdMap = pre.cmdMap
      /\ exceptArray = pre.exceptArray
      /\ \A i \in 1..Len(infoArray) :
           /\ infoArray[i].procOffset = pre.infoArray[i].procOffset
           /\ infoArray[i].bodyOffset = pre.infoArray[i].bodyOffset
      /\ \A p \in 1..Len(code) :
           code[p] # pre.code[p] =>
             \E o \in PatchedPushes : p \in OperandPositions(pre.code, o)
      /\ \A i \in CompilableBefore :
           /\ PushOperand(code, infoArray[i].procOffset) = procNameObjIndex
           /\ PushOperand(code, infoArray[i].bodyOffset) = infoArray[i].bodyNewIndex

\* a site whose body index changed was patched in place under a range
C20_Witness ==
    /\ InPlaceRewritten
    /\ \E i \in CompilableBefore : infoArray[i].bodyNewIndex # infoArray[i].bodyOrigIndex
    /\ exceptArray # <<>>

(***************************************************************************)
(* The symbols of the last tuple of a byte sequence.                       *)
(***************************************************************************)
\* the symbols of a byte-sequence field: the characters after the length
\* line that are not line separators
SymbolsOf(out) ==
    LET eol == CHOOSE i \in 1..Len(out) : out[i] = CharNewline /\ \A j \in 1..(i - 1) : out[j] # CharNewline
    IN  SelectSeq(SubSeq(out, eol + 1, Len(out)), LAMBDA ch : ch # CharNewline)

\* the number of symbols of the first n tuples of four bytes: one for a
\* tuple of zeros, five for any other
RECURSIVE FullTupleSymbols(_, _)
FullTupleSymbols(bytes, n) ==
    IF n = 0 THEN 0
    ELSE FullTupleSymbols(bytes, n - 1)
         + (IF \A i \in ((4 * n) - 3)..(4 * n) : bytes[i] = 0 THEN 1 ELSE 5)

\* the number of bytes of the short last tuple, 0 when there is none
ShortCount == Len(a85.bytes) % 4

\* the number of symbols emitted for the short last tuple
ShortTupleSymbols ==
    Len(SymbolsOf(a85.out)) - FullTupleSymbols(a85.bytes, Len(a85.bytes) \div 4)

ShortTupleIsZero ==
    \A i \in (Len(a85.bytes) - ShortCount + 1)..Len(a85.bytes) : a85.bytes[i] = 0

\* C14 (as claimed): the short last tuple of k bytes, 1 <= k < 4, is
\* emitted as exactly k + 1 symbols, whatever its bytes.
C14_ShortTupleSymbolCount ==
    (EmittedWithoutFailure /\ ShortCount # 0) => ShortTupleSymbols = ShortCount + 1

\* C14 (amended): the short last tuple of k bytes, 1 <= k < 4, is emitted as
\* exactly k + 1 symbols unless all its bytes are zero, and as the single
\* symbol z when all its bytes are zero.
C14_ShortTupleSymbolCountUnlessZero ==
    (EmittedWithoutFailure /\ ShortCount # 0) =>
      /\ ~ShortTupleIsZero => ShortTupleSymbols = ShortCount + 1
      /\ ShortTupleIsZero =>
           /\ ShortTupleSymbols = 1
           /\ SymbolsOf(a85.out)[Len(SymbolsOf(a85.out))] = CharZ

\* a sequence of a full tuple that is not zero and a short tuple of one
\* zero byte has been emitted
C14_Witness ==
    /\ EmittedWithoutFailure
    /\ Len(a85.bytes) = 5
    /\ a85.bytes[1] # 0
    /\ a85.bytes[5] = 0

(***************************************************************************)
(* Properties of the image.                                                *)
(***************************************************************************)
\* an object that is neither an integer, a double, a bytecode nor a
\* procedure body
PlainString(objPtr) == objPtr.typePtr \notin {"int", "double", "bytecode", "procbody"}

\* a literal that is a plain string has been emitted without error
StringEmitted ==
    /\ em.rec.end > em.rec.at
    /\ em.rec.rc = TCL_OK
    /\ PlainString(em.rec.objPtr)

\* the characters of the record of that literal
RecordChars == SubSeq(em.chan, em.rec.at + 1, em.rec.end)

\* C13 (as claimed): a literal that is a plain string is emitted as the
\* line "s", the line of its length in decimal, and its bytes followed by
\* a newline.
C13_StringLiteralIsRaw ==
    StringEmitted =>
      RecordChars = << CMP_STRING_CODE, CharNewline >>
                    \o FormatSize(Len(em.rec.objPtr.bytes)) \o << CharNewline >>
                    \o em.rec.objPtr.bytes \o << CharNewline >>

\* C13 (amended): a literal that is a plain string is emitted as the line
\* "x" followed by a byte-sequence field, the line of its length in decimal
\* and its bytes in ASCII85, which decodes to its bytes.
C13_StringLiteralIsEncoded ==
    StringEmitted =>
      /\ SubSeq(RecordChars, 1, 2) = << CMP_XSTRING_CODE, CharNewline >>
      /\ RecordChars[Len(RecordChars)] = CharNewline
      /\ DecodeOutput(SubSeq(RecordChars, 3, Len(RecordChars))) = em.rec.objPtr.bytes

\* the literal "set", which has no type, has been emitted
C13_Witness ==
    /\ StringEmitted
    /\ em.rec.objPtr.typePtr = "none"
    /\ em.rec.objPtr.bytes = << 115, 101, 116 >>

\* the line of the channel that starts at offset at, without its newline
LineAt(chan, at) ==
    LET eol == Min({i \in (at + 1)..Len(chan) : chan[i] = CharNewline})
    IN  SubSeq(chan, at + 1, eol - 1)

\* the fields of a line, which spaces separate
RECURSIVE Fields(_)
Fields(line) ==
    LET spaces == {i \in 1..Len(line) : line[i] = CharSpace}
    IN  IF spaces = {} THEN << line >>
        ELSE << SubSeq(line, 1, Min(spaces) - 1) >>
             \o Fields(SubSeq(line, Min(spaces) + 1, Len(line)))

\* the k-th field of the header of an emitted image
HeaderField(img, k) == ParseSize(Fields(LineAt(em.chan, img.hdrAt))[k])

\* the length line of the code field, which follows the header
CodeLengthLine(img) ==
    ParseSize(LineAt(em.chan, img.hdrAt + Len(LineAt(em.chan, img.hdrAt)) + 1))

\* the records at the offsets ats start with one of the codes and sep
StartWith(ats, codes, sep) ==
    \A k \in 1..Len(ats) : em.chan[ats[k] + 1] \in codes /\ em.chan[ats[k] + 2] = sep

\* C17: in every image emitted without error, top-level or held by a
\* literal, the header fields num_literals, num_except_ranges and
\* num_aux_data are the numbers of literal, exception-range and AuxData
\* records emitted after the header, each of which starts with its code,
\* and num_code_bytes is the length line of the code field.
C17_HeaderCountsRecords ==
    \A n \in 1..Len(em.images) :
      LET img == em.images[n]
      IN  /\ HeaderField(img, 3) = CodeLengthLine(img)
          /\ HeaderField(img, 4) = Len(img.lits)
          /\ HeaderField(img, 5) = Len(img.excs)
          /\ HeaderField(img, 6) = Len(img.auxs)
          /\ StartWith(img.lits, {CMP_INT_CODE, CMP_DOUBLE_CODE, CMP_XSTRING_CODE,
                                  CMP_PROCBODY_CODE, CMP_BYTECODE_CODE}, CharNewline)
          /\ StartWith(img.excs, {CMP_LOOP_EXCEPTION_RANGE, CMP_CATCH_EXCEPTION_RANGE}, CharSpace)
          /\ StartWith(img.auxs, {CMP_JUMPTABLE_INFO, CMP_DICTUPDATE_INFO,
                                  CMP_NEW_FOREACH_INFO}, CharNewline)

\* a top-level image with five literals, two of which hold images, two
\* exception ranges and an AuxData record has been emitted
C17_Witness ==
    /\ em.pc = "returned"
    /\ em.rc = TCL_OK
    /\ Len(em.images) = 3
    /\ Len(em.images[3].lits) = 5
    /\ Len(em.images[3].excs) = 2
    /\ Len(em.images[3].auxs) = 1

(***************************************************************************)
(* Release of the allocations of a compilation.                            *)
(***************************************************************************)
\* C15 (as claimed): when CompileObject returns, after a success or after
\* a failure, every allocation made during the compilation has been
\* released.
C15_AllReleasedOnReturn ==
    phase = "returned" => heap = NoHeap

(***************************************************************************)
(* The literal table across Compiler_CompileFile.                          *)
(***************************************************************************)
\* C16: whatever the outcome of Compiler_CompileFile (file-name or read
\* error, compile error, output-open, emission or close error, success),
\* the interpreter's literal table on return is the one it had on entry:
\* the same structure and the same buckets.
C16_LiteralTableRestored ==
    cf.pc = "returned" =>
        /\ cf.literalTable = cf.entry.table
        /\ Chains(cf.literalTable, cf.mem) = cf.entry.chains

\* a compilation that interned enough literals to make its table grow has
\* returned into an interpreter whose table held literals
C16_Witness ==
    /\ cf.pc = "returned"
    /\ cf.exit \in {"compile error", "success", "close error"}
    /\ cf.interned = MaxInterned
    /\ cf.entry.table.numEntries > 0
    /\ cf.mem.compileArray # <<>>

(***************************************************************************)
(* The dummy command of CompileOneProcBody.                                *)
(***************************************************************************)
\* C21 (as claimed): the name given to the dummy command is never the name
\* of a command the interpreter already has, so that on return the
\* commands of the interpreter are the ones it had on entry.
C21_DummyNameIsFresh ==
    /\ dm.pc = "compile" => ~dm.replaced
    /\ dm.pc = "returned" => dm.commands = dm.entry

\* C30 (as claimed): the loop that picks the dummy command name ends,
\* whatever commands the interpreter has.
C30_NameLoopTerminates ==
    <>(dm.pc # "name")

\* C29 (as claimed): when the body fails to compile, neither error text
\* stores a byte past the end of the 100-byte buffer.
C29_ErrorTextsFitBuffer ==
    \A i \in 1..Len(dm.stored) : dm.stored[i] <= BufSize

(***************************************************************************)
(* The proc hook, the proc sites and the context counters.                 *)
(***************************************************************************)
\* C22: the compile procedure of proc is the saved one while the bodies
\* are compiled and when CompileObject has returned, after a success and
\* after any failure, and the proc sites of the compilation are the ones
\* of the proc commands the frontend reached at top level: a body that
\* holds proc commands adds none.
C22_HookOnlyForFrontendPass ==
    /\ hk.pc \in {"bodies", "returned"} => hk.compileProc = "saved"
    /\ hk.pc \in {"frontend", "bodies", "restore", "returned"} /\ hk.procCmdPtr
          => Len(hk.procs) = hk.topLevel

\* the bodies of a script with a proc command were compiled, or its
\* frontend pass failed, and CompileObject has returned
C22_Witness ==
    /\ hk.pc = "returned"
    /\ hk.procCmdPtr
    /\ hk.topLevel > 0
    /\ hk.result = TCL_ERROR \/ hk.site = hk.sites

\* C23 (as claimed): each proc site holds the offset, in the final code,
\* of the first instruction of its proc command.
C23_SiteOffsetIsCommandStart ==
    hk.pc \in {"frontend", "bodies", "restore", "returned"} =>
        \A i \in 1..Len(hk.procs) :
            i <= Len(hk.starts) => hk.procs[i].bytecodeOffset = hk.starts[i]

\* C24 (as claimed): the counters of the CompilerContext are the sums of
\* the counts of all the compilations run in the interpreter.
C24_ContextCountersCumulative ==
    hk.pc # "idle" => hk.ctx = hk.sum

(***************************************************************************)
(* The reference EmitScriptPreamble takes on the message object.           *)
(***************************************************************************)
\* C25 (as claimed): when EmitScriptPreamble returns, whether the variable
\* was present or not and whether the write succeeded or not, it has
\* released the reference it took on the object holding the message.
C25_MessageReferenceReleased ==
    pr.pc = "returned" => pr.added = 0

(***************************************************************************)
(* The reads of the shift table.                                           *)
(***************************************************************************)
\* the indexes at which the global expansion reads delta[] for the
\* environment env: the jumps and their targets, the command locations,
\* the exception ranges and the proc sites
DeltaReads(env) ==
    LET c == env.code
        jumps == {o \in InstStarts(c) : IsJump(At(c, o))}
    IN  jumps
        \cup {o + JumpOperand(c, o) : o \in jumps}
        \cup {env.cmdMap[i].codeOffset : i \in 1..Len(env.cmdMap)}
        \cup UNION {LET exc == env.exceptArray[i]
                    IN  {exc.codeOffset, exc.codeOffset + exc.numCodeBytes}
                        \cup (IF exc.type = CATCH_EXCEPTION_RANGE
                                THEN {exc.catchOffset}
                                ELSE IF exc.type = LOOP_EXCEPTION_RANGE
                                       THEN {exc.breakOffset, exc.continueOffset}
                                       ELSE {}) : i \in 1..Len(env.exceptArray)}
        \cup UNION {{env.infoArray[i].procOffset, env.infoArray[i].bodyOffset} :
                       i \in 1..Len(env.infoArray)}

\* C26 (as claimed): every index at which the global expansion reads the
\* shift table is the offset of an instruction of the original code, in
\* [0, len(code)), so that the entry read was written by the pass that
\* fills the table.
C26_DeltaReadsAreWritten ==
    AfterGlobalExpansion => DeltaReads(pre) \subseteq InstStarts(pre.code)

(***************************************************************************)
(* The bounds of the ASCII85 line buffer.                                  *)
(***************************************************************************)
\* C27 (as claimed): no character is stored outside the 72 slots of the
\* line buffer: when A85EncodeBytes is called for the next bytes the buffer
\* holds at most 71 characters, and no call of A85EmitChar stores at or
\* past endPtr, whatever writes succeed or fail.
C27_LineBufferNeverOverrun ==
    /\ ~a85.overflow
    /\ a85.pc = "A85EncodeBytes" /\ a85.pos < Len(a85.bytes)
          => Len(a85.buf) < ENCODED_BUFFER_SIZE

(***************************************************************************)
(* The extent of the commands.                                             *)
(***************************************************************************)
\* the instructions of c, by ordinal, that the location loc spans
Spanned(c, loc) ==
    {Ordinal(c, x) : x \in {y \in InstStarts(c) :
                               /\ loc.codeOffset <= y
                               /\ y < loc.codeOffset + loc.numCodeBytes}}

\* C28 (as claimed): after the rewrite, on either path, the location of
\* every command spans the images of the instructions it spanned before.
C28_CommandExtentsPreserved ==
    Rewritten =>
      \A i \in 1..Len(cmdMap) :
        Spanned(code, cmdMap[i]) = Spanned(pre.code, pre.cmdMap[i])

====
